---- MODULE Spec2Model ----
(***************************************************************************)
(* Model of the test-stage engine of tests/test_ote_training.py:           *)
(* OTETestStage.run_once (memoize-once execution of a stage after its      *)
(* dependency stages), the ten actions' use of the results of previous     *)
(* stages, and OTEIntegrationTestCase (the fixed dependency graph and the  *)
(* shared result storage).                                                 *)
(***************************************************************************)
EXTENDS Integers, Sequences, FiniteSets, TLC

\* Bound on the number of run_stage calls made on one test case
\* (guard of RunStage).
MaxCalls == 3

----------------------------------------------------------------------------
\* OTEIntegrationTestCase._TEST_STAGES, in the order of the tuple.
TEST_STAGES ==
    << "training", "training_evaluation", "export", "export_evaluation",
       "pot", "pot_evaluation", "nncf", "nncf_evaluation",
       "nncf_export", "nncf_export_evaluation" >>

Stages == { TEST_STAGES[i] : i \in 1..Len(TEST_STAGES) }

\* depends_stages in which pot_evaluation does not depend on training_evaluation.
depends_stages_NoBaseline ==
    [ s \in Stages |->
        CASE s = "training"               -> << >>
          [] s = "training_evaluation"    -> << "training" >>
          [] s = "export"                 -> << "training" >>
          [] s = "export_evaluation"      -> << "export" >>
          [] s = "pot"                    -> << "export" >>
          [] s = "pot_evaluation"         -> << "pot" >>
          [] s = "nncf"                   -> << "training" >>
          [] s = "nncf_evaluation"        -> << "nncf", "training_evaluation" >>
          [] s = "nncf_export"            -> << "nncf" >>
          [] s = "nncf_export_evaluation" -> << "nncf_export", "nncf_evaluation" >> ]

\* depends_stages with a cycle: training depends on training_evaluation.
depends_stages_Cyclic ==
    [ s \in Stages |->
        CASE s = "training"               -> << "training_evaluation" >>
          [] s = "training_evaluation"    -> << "training" >>
          [] s = "export"                 -> << "training" >>
          [] s = "export_evaluation"      -> << "export" >>
          [] s = "pot"                    -> << "export" >>
          [] s = "pot_evaluation"         -> << "pot", "training_evaluation" >>
          [] s = "nncf"                   -> << "training" >>
          [] s = "nncf_evaluation"        -> << "nncf", "training_evaluation" >>
          [] s = "nncf_export"            -> << "nncf" >>
          [] s = "nncf_export_evaluation" -> << "nncf_export", "nncf_evaluation" >> ]

\* depends_stages of every OTETestStage built in OTEIntegrationTestCase.__init__,
\* in the order of the lists.
depends_stages ==
    [ s \in Stages |->
        CASE s = "training"               -> << >>
          [] s = "training_evaluation"    -> << "training" >>
          [] s = "export"                 -> << "training" >>
          [] s = "export_evaluation"      -> << "export" >>
          [] s = "pot"                    -> << "export" >>
          [] s = "pot_evaluation"         -> << "pot", "training_evaluation" >>
          [] s = "nncf"                   -> << "training" >>
          [] s = "nncf_evaluation"        -> << "nncf", "training_evaluation" >>
          [] s = "nncf_export"            -> << "nncf" >>
          [] s = "nncf_export_evaluation" -> << "nncf_export", "nncf_evaluation" >> ]

\* BaseOTETestAction.with_validation: _with_validation of the action class.
with_validation ==
    [ s \in Stages |->
        s \in { "training_evaluation", "export_evaluation", "pot_evaluation",
                "nncf_evaluation", "nncf_export_evaluation" } ]

\* The list handed to _check_result_prev_stages by every action's __call__.
list_required_stages ==
    [ s \in Stages |->
        CASE s = "training"               -> { }
          [] s = "training_evaluation"    -> { "training" }
          [] s = "export"                 -> { "training" }
          [] s = "export_evaluation"      -> { "training", "export" }
          [] s = "pot"                    -> { "export" }
          [] s = "pot_evaluation"         -> { "training", "pot" }
          [] s = "nncf"                   -> { "training" }
          [] s = "nncf_evaluation"        -> { "training", "nncf" }
          [] s = "nncf_export"            -> { "training", "nncf" }
          [] s = "nncf_export_evaluation" -> { "training", "nncf_export" } ]

\* The keys of results_prev_stages that every action's __call__ reads
\* when it builds its kwargs.
stages_read ==
    [ s \in Stages |->
        CASE s = "training"               -> { }
          [] s = "training_evaluation"    -> { "training" }
          [] s = "export"                 -> { "training" }
          [] s = "export_evaluation"      -> { "training", "export" }
          [] s = "pot"                    -> { "training", "export" }
          [] s = "pot_evaluation"         -> { "training", "pot" }
          [] s = "nncf"                   -> { "training" }
          [] s = "nncf_evaluation"        -> { "training", "nncf" }
          [] s = "nncf_export"            -> { "training", "nncf" }
          [] s = "nncf_export_evaluation" -> { "training", "nncf_export" } ]

----------------------------------------------------------------------------
\* Values.  A result bundle and an exception are objects; an object is
\* identified by the stage whose action produced it and the number of the
\* invocation of that action that produced it.
NoStage == "-"
NoResult == [ stage |-> NoStage, n |-> 0 ]
NoException == [ kind |-> "none", stage |-> NoStage, n |-> 0 ]

\* The validator argument of run_stage: None, a Validator whose
\* cur_test_expected_metrics_callback is None, or a Validator with a callback.
Validators == { "None", "no_callback", "callback" }

\* What Validator.validate does when it has a callback: it returns, it ends in
\* pytest.fail, or it raises ValueError.
ValidateOutcomes == { "pass", "failed", "error" }

VARIABLES
    was_processed,        \* OTETestStage.was_processed, per stage
    stored_exception,     \* OTETestStage.stored_exception, per stage
    stage_results,        \* OTETestStage.stage_results, per stage
    test_results_storage, \* OTEIntegrationTestCase.test_results_storage (insertion-ordered)
    action_calls,         \* how many times each stage's action was invoked
    nncf_enabled,         \* the template has an nncf entry point and NNCF is installed
    succeeded_as,         \* how each stage's action was first executed successfully
    last,                 \* the last run_stage call: its arguments, events and outcome
    run_stage_calls,      \* how many run_stage calls were made on the test case
    cache,                \* the dict of the fixture cached_from_prev_test_fx
    dataset_definitions,  \* the value of the fixture dataset_definitions_fx: "None" or "set"
    objects_created,      \* how many OTEIntegrationTestCase objects were constructed
    cache_updates,        \* how many _update_test_case_in_cache calls were made
    last_update,          \* the last _update_test_case_in_cache call: its argument and outcome
    first_update,         \* the first _update_test_case_in_cache call that returned a test case
    call,                 \* a call of a function of the validator: its arguments and outcome
    stack                 \* the frames of run_once of a run_stage call that is under way

vars == << was_processed, stored_exception, stage_results, test_results_storage,
           action_calls, nncf_enabled, succeeded_as, last, run_stage_calls,
           cache, dataset_definitions, objects_created, cache_updates, last_update,
           first_update,
           call, stack >>

\* The fields of the stages and the storage of one OTEIntegrationTestCase, with
\* the history of the calls made on it.
test_case_vars == << was_processed, stored_exception, stage_results,
                     test_results_storage, action_calls, nncf_enabled,
                     succeeded_as, last, run_stage_calls >>

\* The state of the test class run around the test case.
cache_vars == << cache, dataset_definitions, objects_created, cache_updates,
                 last_update, first_update >>

\* `name in test_results_storage`
Keys(storage) == { storage[i].key : i \in 1..Len(storage) }

\* `test_results_storage[name]`
Lookup(storage, name) ==
    LET i == CHOOSE j \in 1..Len(storage) : storage[j].key = name
    IN  storage[i].value

----------------------------------------------------------------------------
\* The state that one run_stage call works on: the fields of the stages, the
\* shared storage, and the events and the exception of the call so far.
CallState ==
    [ was_processed |-> was_processed,
      stored_exception |-> stored_exception,
      stage_results |-> stage_results,
      test_results_storage |-> test_results_storage,
      action_calls |-> action_calls,
      trace |-> << >>,
      raised |-> NoException ]

ActionEvent(s, outcome) == [ ev |-> "action", stage |-> s, outcome |-> outcome ]
ValidateEvent(s, outcome, result) ==
    [ ev |-> "validate", stage |-> s, outcome |-> outcome, result |-> result ]

\* BaseOTETestAction._check_result_prev_stages: is a required stage absent?
\* (an empty storage is falsy, so every required stage is absent from it)
CheckResultPrevStagesFails(results_prev_stages, required) ==
    \E stage_name \in required :
        Len(results_prev_stages) = 0 \/ stage_name \notin Keys(results_prev_stages)

\* How the __call__ of the action of stage s ends on the storage
\* results_prev_stages.  inp.fail is the stage whose work (training, export,
\* optimization, evaluation, or one of the asserts on the produced model)
\* raises in this call.  At most one action fails in one run_stage call, since
\* no exception of an action is swallowed by run_once.
\*   "missing"  RuntimeError of _check_result_prev_stages
\*   "keyerror" KeyError of results_prev_stages[...]
\*   "skipped"  pytest.skip of OTETestNNCFAction._run_ote_nncf
\*   "error"    any other exception of the class Exception
\*   "ok"       the action returns its results
ActionOutcome(s, results_prev_stages, enabled, inp) ==
    IF CheckResultPrevStagesFails(results_prev_stages, list_required_stages[s])
    THEN "missing"
    ELSE IF ~ (stages_read[s] \subseteq Keys(results_prev_stages))
    THEN "keyerror"
    ELSE IF s = "nncf" /\ ~enabled
    THEN "skipped"
    ELSE IF inp.fail = s
    THEN "error"
    ELSE "ok"

\* An except clause that also catches the outcome exception of pytest.skip
\* (`except BaseException as e`).
CaughtByExceptException_AlsoSkipped(outcome) ==
    outcome \in { "missing", "keyerror", "error", "skipped" }

\* `except Exception as e` of run_once: pytest.skip raises Skipped, an
\* OutcomeException, which derives from BaseException and not from Exception.
CaughtByExceptException(outcome) == outcome \in { "missing", "keyerror", "error" }

\* StoreResult that rebinds the storage to a mapping holding only the new entry.
StoreResult_Overwrite(storage, name, results) ==
    << [ key |-> name, value |-> results ] >>

\* StoreResult that leaves the storage as it is.
StoreResult_Nothing(storage, name, results) == storage

\* StoreResult that puts the new entry before the entries of the storage.
StoreResult_Prepend(storage, name, results) ==
    << [ key |-> name, value |-> results ] >> \o storage

\* `test_results_storage[self.name] = self.stage_results` for a new key.
StoreResult(storage, name, results) ==
    Append(storage, [ key |-> name, value |-> results ])

\* Validate that stores the exception of a failed validation in the stage, as
\* the except clause of run_once does for the exception of an action.
Validate_StoreFailure(st, s, validator, inp) ==
    LET outcome == IF validator = "no_callback" THEN "noop" ELSE inp.validate
        event == ValidateEvent(s, outcome, st.stage_results[s])
        exc == CASE outcome = "failed" -> [ kind |-> "validation_failed", stage |-> s, n |-> 0 ]
                 [] outcome = "error"  -> [ kind |-> "validation_error", stage |-> s, n |-> 0 ]
                 [] OTHER              -> NoException
    IN  [ st EXCEPT !.trace = Append(@, event), !.raised = exc,
                    !.stored_exception[s] = exc ]

\* Validator.validate, seen from run_once: a no-op without callback, else
\* the outcome inp.validate of the comparison with the expected metrics.
Validate(st, s, validator, inp) ==
    LET outcome == IF validator = "no_callback" THEN "noop" ELSE inp.validate
        event == ValidateEvent(s, outcome, st.stage_results[s])
        exc == CASE outcome = "failed" -> [ kind |-> "validation_failed", stage |-> s, n |-> 0 ]
                 [] outcome = "error"  -> [ kind |-> "validation_error", stage |-> s, n |-> 0 ]
                 [] OTHER              -> NoException
    IN  [ st EXCEPT !.trace = Append(@, event), !.raised = exc ]

\* _run_validation without the test of action.with_validation.
RunValidation_EveryAction(st, s, validator, inp) ==
    IF validator = "None"
    THEN st
    ELSE Validate(st, s, validator, inp)

\* OTETestStage._run_validation
RunValidation(st, s, validator, inp) ==
    IF ~with_validation[s]
    THEN st
    ELSE IF validator = "None"
    THEN st
    ELSE Validate(st, s, validator, inp)

\* RunMainAction with the line `self.was_processed = True` of the success
\* path left out.
RunMainAction_NoFlagOnSuccess(st, s, enabled, inp) ==
    LET n == st.action_calls[s] + 1
        outcome == ActionOutcome(s, st.test_results_storage, enabled, inp)
        called == [ st EXCEPT !.action_calls[s] = n,
                              !.trace = Append(@, ActionEvent(s, outcome)) ]
        results == [ stage |-> s, n |-> n ]
        e == [ kind |-> outcome, stage |-> s, n |-> n ]
    IN  IF outcome = "ok"
        THEN [ called EXCEPT !.stage_results[s] = results,
                             !.test_results_storage = StoreResult(@, s, results) ]
        ELSE IF CaughtByExceptException(outcome)
        THEN [ called EXCEPT !.stored_exception[s] = e,
                             !.was_processed[s] = TRUE,
                             !.raised = e ]
        ELSE [ called EXCEPT !.raised = e ]

\* RunMainAction whose except clause also puts an entry for the stage into
\* the storage.
RunMainAction_StoreOnFailure(st, s, enabled, inp) ==
    LET n == st.action_calls[s] + 1
        outcome == ActionOutcome(s, st.test_results_storage, enabled, inp)
        called == [ st EXCEPT !.action_calls[s] = n,
                              !.trace = Append(@, ActionEvent(s, outcome)) ]
        results == [ stage |-> s, n |-> n ]
        e == [ kind |-> outcome, stage |-> s, n |-> n ]
    IN  IF outcome = "ok"
        THEN [ called EXCEPT !.stage_results[s] = results,
                             !.was_processed[s] = TRUE,
                             !.test_results_storage = StoreResult(@, s, results) ]
        ELSE IF CaughtByExceptException(outcome)
        THEN [ called EXCEPT !.stored_exception[s] = e,
                             !.was_processed[s] = TRUE,
                             !.test_results_storage = StoreResult(@, s, NoResult),
                             !.raised = e ]
        ELSE [ called EXCEPT !.raised = e ]

\* RunMainAction whose except clause empties the storage.
RunMainAction_ClearOnFailure(st, s, enabled, inp) ==
    LET n == st.action_calls[s] + 1
        outcome == ActionOutcome(s, st.test_results_storage, enabled, inp)
        called == [ st EXCEPT !.action_calls[s] = n,
                              !.trace = Append(@, ActionEvent(s, outcome)) ]
        results == [ stage |-> s, n |-> n ]
        e == [ kind |-> outcome, stage |-> s, n |-> n ]
    IN  IF outcome = "ok"
        THEN [ called EXCEPT !.stage_results[s] = results,
                             !.was_processed[s] = TRUE,
                             !.test_results_storage = StoreResult(@, s, results) ]
        ELSE IF CaughtByExceptException(outcome)
        THEN [ called EXCEPT !.stored_exception[s] = e,
                             !.was_processed[s] = TRUE,
                             !.test_results_storage = << >>,
                             !.raised = e ]
        ELSE [ called EXCEPT !.raised = e ]

\* The try ... except of run_once around the main action.
RunMainAction(st, s, enabled, inp) ==
    LET n == st.action_calls[s] + 1
        outcome == ActionOutcome(s, st.test_results_storage, enabled, inp)
        called == [ st EXCEPT !.action_calls[s] = n,
                              !.trace = Append(@, ActionEvent(s, outcome)) ]
        results == [ stage |-> s, n |-> n ]
        e == [ kind |-> outcome, stage |-> s, n |-> n ]
    IN  IF outcome = "ok"
        THEN [ called EXCEPT !.stage_results[s] = results,
                             !.was_processed[s] = TRUE,
                             !.test_results_storage = StoreResult(@, s, results) ]
        ELSE IF CaughtByExceptException(outcome)
        THEN [ called EXCEPT !.stored_exception[s] = e,
                             !.was_processed[s] = TRUE,
                             !.raised = e ]
        ELSE [ called EXCEPT !.raised = e ]

\* _reraise_stage_exception_if_was_failed that makes the failed stage a stage
\* that was not run, before it raises the stored exception.
ReraiseStageExceptionIfWasFailed_ThenReset(st, s) ==
    IF st.stored_exception[s] = NoException
    THEN st
    ELSE [ st EXCEPT !.raised = st.stored_exception[s],
                     !.was_processed[s] = FALSE,
                     !.stored_exception[s] = NoException ]

\* OTETestStage._reraise_stage_exception_if_was_failed
ReraiseStageExceptionIfWasFailed(st, s) ==
    IF st.stored_exception[s] = NoException
    THEN st
    ELSE [ st EXCEPT !.raised = st.stored_exception[s] ]

\* AlreadyProcessed without the call of _reraise_stage_exception_if_was_failed.
AlreadyProcessed_NoReraise(st, s, validator, inp) ==
    RunValidation(st, s, validator, inp)

\* AlreadyProcessed that returns right after the re-raise check, without the
\* call of _run_validation.
AlreadyProcessed_NoValidation(st, s, validator, inp) ==
    ReraiseStageExceptionIfWasFailed(st, s)

\* The branch `if self.was_processed:` of run_once.
AlreadyProcessed(st, s, validator, inp) ==
    LET r == ReraiseStageExceptionIfWasFailed(st, s)
    IN  IF r.raised # NoException
        THEN r
        ELSE RunValidation(r, s, validator, inp)

RECURSIVE run_once(_, _, _, _, _)
RECURSIVE RunDependsStages(_, _, _, _, _, _)

\* RunDependsStages that hands its own validator on to the dependency stages.
RunDependsStages_PassValidator(st, deps, i, validator, enabled, inp) ==
    IF i > Len(deps)
    THEN st
    ELSE LET st1 == run_once(st, deps[i], validator, enabled, inp)
         IN  IF st1.raised # NoException
             THEN st1
             ELSE RunDependsStages(st1, deps, i + 1, validator, enabled, inp)

\* RunDependsStages that first looks for a failed stage among the dependency
\* stages that are left and raises its exception before it runs any of them.
RunDependsStages_FailedFirst(st, deps, i, validator, enabled, inp) ==
    LET failed == { j \in i..Len(deps) : /\ st.was_processed[deps[j]]
                                         /\ st.stored_exception[deps[j]] # NoException }
    IN  IF i > Len(deps)
        THEN st
        ELSE IF failed # { }
        THEN [ st EXCEPT !.raised =
                 st.stored_exception[deps[CHOOSE j \in failed : \A k \in failed : j <= k]] ]
        ELSE LET st1 == run_once(st, deps[i], "None", enabled, inp)
             IN  IF st1.raised # NoException
                 THEN st1
                 ELSE RunDependsStages(st1, deps, i + 1, validator, enabled, inp)

\* RunDependsStages that runs no dependency stage.
RunDependsStages_None(st, deps, i, validator, enabled, inp) == st

\* RunDependsStages that swallows the exception of a dependency stage and goes
\* on with the next one.
RunDependsStages_IgnoreFailure(st, deps, i, validator, enabled, inp) ==
    IF i > Len(deps)
    THEN st
    ELSE LET st1 == run_once(st, deps[i], "None", enabled, inp)
         IN  RunDependsStages(
                 [ st1 EXCEPT !.raised = NoException ], deps, i + 1, validator, enabled, inp)

\* The loop `for dep_stage in self.depends_stages` of run_once(...,
\* validator): every dependency stage is run with validator = None; an
\* exception of a dependency stage ends the loop and the call.
RunDependsStages(st, deps, i, validator, enabled, inp) ==
    IF i > Len(deps)
    THEN st
    ELSE LET st1 == run_once(st, deps[i], "None", enabled, inp)
         IN  IF st1.raised # NoException
             THEN st1
             ELSE RunDependsStages(st1, deps, i + 1, validator, enabled, inp)

\* run_once that looks for the name of the stage in the storage before it
\* looks at was_processed.
run_once_DuplicateCheckFirst(st, s, validator, enabled, inp) ==
    LET d == RunDependsStages(st, depends_stages[s], 1, validator, enabled, inp)
    IN  IF d.raised # NoException
        THEN d
        ELSE IF s \in Keys(d.test_results_storage)
        THEN [ d EXCEPT !.raised = [ kind |-> "duplicate", stage |-> s, n |-> 0 ] ]
        ELSE IF d.was_processed[s]
        THEN AlreadyProcessed(d, s, validator, inp)
        ELSE LET a == RunMainAction(d, s, enabled, inp)
             IN  IF a.raised # NoException
                 THEN a
                 ELSE RunValidation(a, s, validator, inp)

\* OTETestStage.run_once
run_once(st, s, validator, enabled, inp) ==
    LET d == RunDependsStages(st, depends_stages[s], 1, validator, enabled, inp)
    IN  IF d.raised # NoException
        THEN d
        ELSE IF d.was_processed[s]
        THEN AlreadyProcessed(d, s, validator, inp)
        ELSE IF s \in Keys(d.test_results_storage)
        THEN [ d EXCEPT !.raised = [ kind |-> "duplicate", stage |-> s, n |-> 0 ] ]
        ELSE LET a == RunMainAction(d, s, enabled, inp)
             IN  IF a.raised # NoException
                 THEN a
                 ELSE RunValidation(a, s, validator, inp)

----------------------------------------------------------------------------
NoUpdate == [ outcome |-> "none", params |-> << >>, test_case |-> 0 ]
NoCall == [ fn |-> "none", args |-> << >>, done |-> FALSE, result |-> << >> ]

\* The fields of a new OTEIntegrationTestCase: OTETestStage.__init__ for every
\* stage and the empty storage.
NewTestCase ==
    /\ was_processed = [ s \in Stages |-> FALSE ]
    /\ stored_exception = [ s \in Stages |-> NoException ]
    /\ stage_results = [ s \in Stages |-> NoResult ]
    /\ test_results_storage = << >>
    /\ action_calls = [ s \in Stages |-> 0 ]
    /\ succeeded_as = [ s \in Stages |-> "never" ]
    /\ last = [ stage |-> NoStage, validator |-> "None", trace |-> << >>,
                raised |-> NoException ]
    /\ run_stage_calls = 0

\* One OTEIntegrationTestCase, constructed directly, in the environment of the
\* test run.
Init ==
    /\ NewTestCase
    /\ nncf_enabled \in BOOLEAN
    /\ cache = << >>
    /\ dataset_definitions = "set"
    /\ objects_created = 1
    /\ cache_updates = 0
    /\ last_update = NoUpdate
    /\ first_update = NoUpdate
    /\ stack = << >>
    /\ call = NoCall

\* The stages whose action returned its results in the call with the events trace.
SucceededIn(trace) ==
    { trace[i].stage : i \in { j \in 1..Len(trace) :
                                 trace[j].ev = "action" /\ trace[j].outcome = "ok" } }

\* OTEIntegrationTestCase.run_stage(stage_name, data_collector, validator)
RunStage(stage_name, validator, inp) ==
    /\ run_stage_calls < MaxCalls
    /\ \E st \in { run_once(CallState, stage_name, validator, nncf_enabled, inp) } :
        /\ run_stage_calls' = run_stage_calls + 1
        /\ was_processed' = st.was_processed
        /\ stored_exception' = st.stored_exception
        /\ stage_results' = st.stage_results
        /\ test_results_storage' = st.test_results_storage
        /\ action_calls' = st.action_calls
        /\ succeeded_as' =
              [ s \in Stages |->
                  IF s \in SucceededIn(st.trace)
                  THEN (IF s = stage_name THEN "direct" ELSE "dependency")
                  ELSE succeeded_as[s] ]
        /\ last' = [ stage |-> stage_name, validator |-> validator,
                     trace |-> st.trace, raised |-> st.raised ]
        /\ UNCHANGED nncf_enabled
        /\ UNCHANGED cache_vars
        /\ UNCHANGED << call, stack >>

\* The stages that run_once of stage s reaches through depends_stages.
RECURSIVE TransitiveDepends(_)
TransitiveDepends(s) ==
    LET direct == { depends_stages[s][i] : i \in 1..Len(depends_stages[s]) }
    IN  direct \cup UNION { TransitiveDepends(d) : d \in direct }

transitive_depends == [ s \in Stages |-> TransitiveDepends(s) ]

\* The inputs of a call that the call can consult: only the action of a stage
\* that was not processed yet and is reached from stage_name is invoked, and
\* only a validator with a callback compares metrics, only for the requested
\* stage and only if its action is made with validation.
FailInputs(stage_name) ==
    { NoStage } \cup { s \in { stage_name } \cup transitive_depends[stage_name] :
                         ~was_processed[s] }

ValidateInputs(stage_name, validator) ==
    IF validator = "callback" /\ with_validation[stage_name]
    THEN ValidateOutcomes
    ELSE { "pass" }

Next ==
    \E stage_name \in Stages, validator \in Validators :
        \E fail \in FailInputs(stage_name),
           validate \in ValidateInputs(stage_name, validator) :
            RunStage(stage_name, validator, [ fail |-> fail, validate |-> validate ])

Spec == Init /\ [][Next]_vars

TypeOK ==
    /\ was_processed \in [ Stages -> BOOLEAN ]
    /\ action_calls \in [ Stages -> 0..MaxCalls ]
    /\ nncf_enabled \in BOOLEAN

----------------------------------------------------------------------------
\* The cache of the test class: the fixture test_case_fx calls
\* _update_test_case_in_cache before every test, the test body then calls
\* run_stage on the returned test case.

\* At most MaxUpdates calls of the fixture are made, and at most MaxTests test
\* bodies are run on one test case.
MaxUpdates == 3
MaxTests == 1

TEST_PARAMETERS_DEFINING_IMPL_BEHAVIOR ==
    { "model_name", "dataset_name", "num_training_iters", "batch_size" }

TestCaseKey == "_test_case_"

\* The parameters of the tests (the values that define the behaviour, written
\* as strings): one bunch and, for every parameter, a bunch that differs from
\* it in that parameter only.
test_bunches ==
    LET base == [ model_name |-> "gen3_mobilenetV2_SSD",
                  dataset_name |-> "dataset1_tiled_shortened_500_A",
                  num_training_iters |-> "1",
                  batch_size |-> "2" ]
    IN  { base,
          [ base EXCEPT !.model_name = "gen3_mobilenetV2_ATSS" ],
          [ base EXCEPT !.dataset_name = "bbcd" ],
          [ base EXCEPT !.num_training_iters = "KEEP_CONFIG_FIELD_VALUE" ],
          [ base EXCEPT !.batch_size = "KEEP_CONFIG_FIELD_VALUE" ] }

\* cache.get(k) == v, for a value v that is not None.
CacheGetEquals(c, k, v) == k \in DOMAIN c /\ c[k] = v

clean_cache_if_parameters_changed_ModelOnly(c, params_defining_cache) ==
    IF CacheGetEquals(c, "model_name", params_defining_cache["model_name"])
    THEN c
    ELSE params_defining_cache

clean_cache_if_parameters_changed_KeepOld(c, params_defining_cache) ==
    IF \A k \in DOMAIN params_defining_cache :
           CacheGetEquals(c, k, params_defining_cache[k])
    THEN c
    ELSE [ k \in DOMAIN c \cup DOMAIN params_defining_cache |->
             IF k \in DOMAIN params_defining_cache
             THEN params_defining_cache[k] ELSE c[k] ]

\* A cache that is kept, whatever the parameters, once it holds a test case.
clean_cache_if_parameters_changed_OnlyWithoutTestCase(c, params_defining_cache) ==
    IF TestCaseKey \in DOMAIN c
    THEN c
    ELSE params_defining_cache

\* The cache after the call: kept when every parameter is in the cache with
\* the same value, otherwise all its keys are deleted and the parameters set.
clean_cache_if_parameters_changed(c, params_defining_cache) ==
    IF \A k \in DOMAIN params_defining_cache :
           CacheGetEquals(c, k, params_defining_cache[k])
    THEN c
    ELSE params_defining_cache

ParamsDefiningCache(test_parameters) ==
    [ k \in TEST_PARAMETERS_DEFINING_IMPL_BEHAVIOR |-> test_parameters[k] ]

\* The fields of the test case that the variables describe after a call of
\* OTEIntegrationTestCase.__init__; whether NNCF can be used depends on the
\* template of the model.
ConstructTestCase ==
    /\ was_processed' = [ s \in Stages |-> FALSE ]
    /\ stored_exception' = [ s \in Stages |-> NoException ]
    /\ stage_results' = [ s \in Stages |-> NoResult ]
    /\ test_results_storage' = << >>
    /\ action_calls' = [ s \in Stages |-> 0 ]
    /\ succeeded_as' = [ s \in Stages |-> "never" ]
    /\ last' = [ stage |-> NoStage, validator |-> "None", trace |-> << >>,
                 raised |-> NoException ]
    /\ run_stage_calls' = 0

\* _update_test_case_in_cache; created is FALSE when building the dataset
\* parameters, the template path or the test case raises.
update_test_case_in_cache(test_parameters, created) ==
    /\ cache_updates < MaxUpdates
    /\ cache_updates' = cache_updates + 1
    /\ UNCHANGED << dataset_definitions, call, stack >>
    /\ IF dataset_definitions = "None"
       THEN /\ last_update' = [ outcome |-> "skipped",
                                params |-> ParamsDefiningCache(test_parameters),
                                test_case |-> 0 ]
            /\ UNCHANGED << cache, objects_created, test_case_vars >>
       ELSE \E cleaned \in { clean_cache_if_parameters_changed(
                                 cache, ParamsDefiningCache(test_parameters)) } :
              IF TestCaseKey \in DOMAIN cleaned
              THEN /\ cache' = cleaned
                   /\ last_update' = [ outcome |-> "returned",
                                       params |-> ParamsDefiningCache(test_parameters),
                                       test_case |-> cleaned[TestCaseKey] ]
                   /\ UNCHANGED << objects_created, test_case_vars >>
              ELSE IF created
              THEN /\ objects_created' = objects_created + 1
                   /\ cache' = (TestCaseKey :> objects_created + 1) @@ cleaned
                   /\ ConstructTestCase
                   /\ nncf_enabled' \in BOOLEAN
                   /\ last_update' = [ outcome |-> "returned",
                                       params |-> ParamsDefiningCache(test_parameters),
                                       test_case |-> objects_created + 1 ]
              ELSE /\ cache' = cleaned
                   /\ ConstructTestCase
                   /\ nncf_enabled' = FALSE
                   /\ UNCHANGED objects_created
                   /\ last_update' = [ outcome |-> "raised",
                                       params |-> ParamsDefiningCache(test_parameters),
                                       test_case |-> 0 ]
    /\ first_update' = IF first_update = NoUpdate /\ last_update'.outcome = "returned"
                       THEN last_update'
                       ELSE first_update

\* TestOTEIntegration.test: run_stage on the test case of the fixture, with a
\* Validator built on the callback of the test.
test(stage_name, validator, inp) ==
    /\ run_stage_calls < MaxTests
    /\ TestCaseKey \in DOMAIN cache
    /\ last_update.outcome = "returned"
    /\ RunStage(stage_name, validator, inp)

\* cached_from_prev_test_fx returns an empty dict; no test case exists yet.
InitCache ==
    /\ NewTestCase
    /\ nncf_enabled = FALSE
    /\ cache = << >>
    /\ dataset_definitions \in { "None", "set" }
    /\ objects_created = 0
    /\ cache_updates = 0
    /\ last_update = NoUpdate
    /\ first_update = NoUpdate
    /\ stack = << >>
    /\ call = NoCall

NextCache ==
    \/ \E test_parameters \in test_bunches, created \in BOOLEAN :
          update_test_case_in_cache(test_parameters, created)
    \/ \E stage_name \in Stages, validator \in { "no_callback", "callback" } :
          \E fail \in FailInputs(stage_name),
             validate \in ValidateInputs(stage_name, validator) :
              test(stage_name, validator, [ fail |-> fail, validate |-> validate ])

SpecCache == InitCache /\ [][NextCache]_vars

----------------------------------------------------------------------------
\* The values that the validator handles.  A value is a record of its type t
\* and its content v: a float is a whole number of units (arithmetic on
\* finite floats is exact here) or nan, a str is the sequence of its
\* characters, a dict is a function from keys (the characters of a str) to
\* values.

PyNone == [ t |-> "None", v |-> 0 ]
PyInt(n) == [ t |-> "int", v |-> n ]
PyFloat(n) == [ t |-> "float", v |-> n ]
PyNaN == [ t |-> "nan", v |-> 0 ]
PyStr(chars) == [ t |-> "str", v |-> chars ]
PyDict(f) == [ t |-> "dict", v |-> f ]

\* isinstance(x, float)
IsFloat(x) == x.t \in { "float", "nan" }

\* The outcome of a call: a returned value, or the kind of the exception.
Returns(val) == [ exc |-> "none", val |-> val ]
Raises(kind) == [ exc |-> kind, val |-> PyNone ]

\* The strings that float() parses, with their values.
FloatOfString ==
    (<< "5" >> :> PyFloat(5)) @@ (<< "n", "a", "n" >> :> PyNaN)

\* float(x): a float is kept, an int is converted, a str is parsed, and every
\* other value is a TypeError.
float(x) ==
    CASE x.t \in { "float", "nan" } -> Returns(x)
      [] x.t = "int" -> Returns(PyFloat(x.v))
      [] x.t = "str" -> IF x.v \in DOMAIN FloatOfString
                        THEN Returns(FloatOfString[x.v])
                        ELSE Raises("ValueError")
      [] OTHER -> Raises("TypeError")

\* a + b, a - b, a <= b and a >= b on floats; every comparison with nan is
\* False.
FAdd(a, b) == IF a.t = "nan" \/ b.t = "nan" THEN PyNaN ELSE PyFloat(a.v + b.v)
FSub(a, b) == IF a.t = "nan" \/ b.t = "nan" THEN PyNaN ELSE PyFloat(a.v - b.v)
FLe(a, b) == a.t = "float" /\ b.t = "float" /\ a.v <= b.v
FGe(a, b) == a.t = "float" /\ b.t = "float" /\ a.v >= b.v

\* address.split('.'): the segments between the dots, as many as dots plus one.
RECURSIVE SplitFrom(_, _, _)
SplitFrom(chars, i, cur) ==
    IF i > Len(chars) THEN << cur >>
    ELSE IF chars[i] = "." THEN << cur >> \o SplitFrom(chars, i + 1, << >>)
    ELSE SplitFrom(chars, i + 1, Append(cur, chars[i]))

split(chars) == SplitFrom(chars, 1, << >>)

\* The inner function _get of get_value_from_dict_by_dot_separated_address.
RECURSIVE Get(_, _)
Get(cur_struct, addr) ==
    IF addr = << >> THEN Returns(cur_struct)
    ELSE IF cur_struct.t # "dict" THEN Raises("AssertionError")
    ELSE IF Head(addr) \notin DOMAIN cur_struct.v THEN Raises("ValueError")
    ELSE Get(cur_struct.v[Head(addr)], Tail(addr))

get_value_from_dict_by_dot_separated_address(struct, address) ==
    IF address.t # "str" THEN Raises("AssertionError")
    ELSE Get(struct, split(address.v))

\* cur_metric_requirements.get(key)
RequirementGet(cur_metric_requirements, key) ==
    IF key \in DOMAIN cur_metric_requirements
    THEN cur_metric_requirements[key]
    ELSE PyNone

\* The float of a tolerance, which has to be non-negative.
Tolerance(x) ==
    LET f == float(x)
    IN  IF f.exc # "none" THEN f
        ELSE IF ~FGe(f.val, PyFloat(0)) THEN Raises("ValueError")
        ELSE f

\* The target value of a requirement whose keys were checked: the float of
\* 'target_value', or of the value at the address 'base' of the storage.
TargetValue(cur_metric_requirements, storage) ==
    IF "target_value" \in DOMAIN cur_metric_requirements
    THEN float(cur_metric_requirements["target_value"])
    ELSE LET r == get_value_from_dict_by_dot_separated_address(
                      storage, cur_metric_requirements["base"])
         IN  IF r.exc # "none" THEN r ELSE float(r.val)

\* The bounds of a requirement with 'max_diff'.
SymmetricRange_Narrower(target_value, max_diff) ==
    << target_value, FSub(target_value, FSub(max_diff, PyFloat(1))),
       FAdd(target_value, FSub(max_diff, PyFloat(1))) >>

SymmetricRange(target_value, max_diff) ==
    << target_value, FSub(target_value, max_diff), FAdd(target_value, max_diff) >>

\* The bounds of a requirement without 'max_diff': None on the side whose key
\* is absent or None.
AsymmetricRange_BothSides(target_value, cur_metric_requirements) ==
    LET less == RequirementGet(cur_metric_requirements, "max_diff_if_less_threshold")
        greater == RequirementGet(cur_metric_requirements, "max_diff_if_greater_threshold")
        g == IF greater.t # "None" THEN Tolerance(greater) ELSE Tolerance(less)
        l == IF less.t # "None" THEN Tolerance(less) ELSE Tolerance(greater)
    IN  IF less.t = "None" /\ greater.t = "None" THEN Raises("ValueError")
        ELSE IF g.exc # "none" THEN g
        ELSE IF l.exc # "none" THEN l
        ELSE Returns(<< target_value, FSub(target_value, l.val),
                        FAdd(target_value, g.val) >>)

AsymmetricRange(target_value, cur_metric_requirements) ==
    LET less == RequirementGet(cur_metric_requirements, "max_diff_if_less_threshold")
        greater == RequirementGet(cur_metric_requirements, "max_diff_if_greater_threshold")
        g == IF greater.t # "None" THEN Tolerance(greater) ELSE Returns(PyNone)
        l == IF less.t # "None" THEN Tolerance(less) ELSE Returns(PyNone)
    IN  IF less.t = "None" /\ greater.t = "None" THEN Raises("ValueError")
        ELSE IF g.exc # "none" THEN g
        ELSE IF l.exc # "none" THEN l
        ELSE Returns(<< target_value,
                        IF less.t # "None" THEN FSub(target_value, l.val) ELSE PyNone,
                        IF greater.t # "None" THEN FAdd(target_value, g.val) ELSE PyNone >>)

\* Validator._get_min_max_value_from_expected_metrics: the triple
\* << target_value, min_value, max_value >>, or the exception.
get_min_max_value_from_expected_metrics_TargetOptional(cur_metric_requirements, storage) ==
    LET keys == DOMAIN cur_metric_requirements
        target == IF "target_value" \in keys \/ "base" \in keys
                  THEN TargetValue(cur_metric_requirements, storage)
                  ELSE Returns(PyFloat(0))
    IN  IF target.exc # "none" THEN target
        ELSE IF "max_diff" \in keys
        THEN LET max_diff == Tolerance(cur_metric_requirements["max_diff"])
             IN  IF max_diff.exc # "none" THEN max_diff
                 ELSE Returns(SymmetricRange(target.val, max_diff.val))
        ELSE AsymmetricRange(target.val, cur_metric_requirements)

get_min_max_value_from_expected_metrics_MaxDiffWins(cur_metric_requirements, storage) ==
    LET keys == DOMAIN cur_metric_requirements
        target == TargetValue(cur_metric_requirements, storage)
    IN  IF "target_value" \notin keys /\ "base" \notin keys THEN Raises("ValueError")
        ELSE IF "target_value" \in keys /\ "base" \in keys THEN Raises("ValueError")
        ELSE IF target.exc # "none" THEN target
        ELSE IF "max_diff" \in keys
        THEN LET max_diff == Tolerance(cur_metric_requirements["max_diff"])
             IN  IF max_diff.exc # "none" THEN max_diff
                 ELSE Returns(SymmetricRange(target.val, max_diff.val))
        ELSE AsymmetricRange(target.val, cur_metric_requirements)

get_min_max_value_from_expected_metrics(cur_metric_requirements, storage) ==
    LET keys == DOMAIN cur_metric_requirements
        target == TargetValue(cur_metric_requirements, storage)
    IN  IF "target_value" \notin keys /\ "base" \notin keys THEN Raises("ValueError")
        ELSE IF "target_value" \in keys /\ "base" \in keys THEN Raises("ValueError")
        ELSE IF /\ "max_diff" \notin keys
                /\ "max_diff_if_less_threshold" \notin keys
                /\ "max_diff_if_greater_threshold" \notin keys
        THEN Raises("ValueError")
        ELSE IF /\ "max_diff" \in keys
                /\ \/ "max_diff_if_less_threshold" \in keys
                   \/ "max_diff_if_greater_threshold" \in keys
        THEN Raises("ValueError")
        ELSE IF target.exc # "none" THEN target
        ELSE IF "max_diff" \in keys
        THEN LET max_diff == Tolerance(cur_metric_requirements["max_diff"])
             IN  IF max_diff.exc # "none" THEN max_diff
                 ELSE Returns(SymmetricRange(target.val, max_diff.val))
        ELSE AsymmetricRange(target.val, cur_metric_requirements)

\* The reason of a failed comparison: the lines of the message name the
\* metric, its value and the bounds.
FailReason(cur_res_addr, current_metric, target_value, min_value, max_value) ==
    [ addr |-> cur_res_addr, current_metric |-> current_metric,
      target_value |-> target_value, min_value |-> min_value,
      max_value |-> max_value ]

NoFailReason == FailReason(PyNone, PyNone, PyNone, PyNone, PyNone)

\* Validator._compare: is_passed and cur_fail_reason, or the AssertionError.
compare(current_metric, cur_res_addr, target_value, min_value, max_value) ==
    LET reason == FailReason(cur_res_addr, current_metric, target_value,
                             min_value, max_value)
        result(is_passed) ==
            [ exc |-> "none", is_passed |-> is_passed,
              cur_fail_reason |-> IF is_passed THEN NoFailReason ELSE reason ]
        assertion == [ exc |-> "AssertionError", is_passed |-> FALSE,
                       cur_fail_reason |-> NoFailReason ]
    IN  IF ~IsFloat(current_metric) \/ ~IsFloat(target_value) THEN assertion
        ELSE IF \E b \in { min_value, max_value } : b.t # "None" /\ ~IsFloat(b)
        THEN assertion
        ELSE IF min_value.t # "None" /\ max_value.t # "None"
        THEN IF ~(FLe(min_value, target_value) /\ FLe(target_value, max_value))
             THEN assertion
             ELSE result(FLe(min_value, current_metric)
                         /\ FLe(current_metric, max_value))
        ELSE IF min_value.t = "None" /\ max_value.t = "None" THEN assertion
        ELSE IF min_value.t # "None"
        THEN result(FGe(current_metric, min_value))
        ELSE result(FLe(current_metric, max_value))

\* The float of the metric at the address cur_res_addr of the current result.
CurrentMetric(current_result, cur_res_addr) ==
    LET r == get_value_from_dict_by_dot_separated_address(current_result, cur_res_addr)
    IN  IF r.exc # "none" THEN r ELSE float(r.val)

Caught(exc) == exc \in { "ValueError", "TypeError" }

\* The state of one call of validate: what was checked, in order, the reasons
\* of the failed comparisons, and the exception the call ended with.
ValidateState ==
    [ trace |-> << >>, fail_reasons |-> << >>,
      raised |-> [ kind |-> "none", cause |-> "none", lines |-> << >> ] ]

CheckEvent(cur_res_addr, current_metric, bounds, is_passed) ==
    [ addr |-> cur_res_addr, current_metric |-> current_metric,
      bounds |-> bounds, is_passed |-> is_passed ]

ValidateRaise(vs, event, kind, cause) ==
    [ vs EXCEPT !.trace = Append(@, event),
                !.raised = [ kind |-> kind, cause |-> cause, lines |-> << >> ] ]

\* The loop of Validator.validate from the i-th item of the expected metrics,
\* and the end of validate after the last one.
RECURSIVE ValidateLoop(_, _, _, _, _)
\* ValidateLoop that leaves the loop after the first failed comparison.
ValidateLoop_StopAtFirstFailure(vs, items, i, current_result, storage) ==
    IF i > Len(items) \/ vs.fail_reasons # << >>
    THEN IF vs.fail_reasons # << >>
         THEN [ vs EXCEPT !.raised = [ kind |-> "Failed", cause |-> "none",
                                       lines |-> vs.fail_reasons ] ]
         ELSE vs
    ELSE
    LET cur_res_addr == items[i].k
        cur_metric_requirements == items[i].v
        current_metric == CurrentMetric(current_result, cur_res_addr)
        bounds == get_min_max_value_from_expected_metrics(cur_metric_requirements,
                                                          storage)
        cmp == compare(current_metric.val, cur_res_addr,
                       bounds.val[1], bounds.val[2], bounds.val[3])
        NoBounds == << PyNone, PyNone, PyNone >>
    IN  IF current_metric.exc # "none"
        THEN ValidateRaise(vs, CheckEvent(cur_res_addr, PyNone, NoBounds, FALSE),
                           IF Caught(current_metric.exc) THEN "ValueError"
                           ELSE current_metric.exc,
                           IF Caught(current_metric.exc) THEN current_metric.exc
                           ELSE "none")
        ELSE IF bounds.exc # "none"
        THEN ValidateRaise(vs, CheckEvent(cur_res_addr, current_metric.val, NoBounds, FALSE),
                           IF Caught(bounds.exc) THEN "ValueError" ELSE bounds.exc,
                           IF Caught(bounds.exc) THEN bounds.exc ELSE "none")
        ELSE IF cmp.exc # "none"
        THEN ValidateRaise(vs, CheckEvent(cur_res_addr, current_metric.val, bounds.val, FALSE),
                           cmp.exc, "none")
        ELSE ValidateLoop(
                 [ vs EXCEPT !.trace = Append(@, CheckEvent(cur_res_addr, current_metric.val,
                                                            bounds.val, cmp.is_passed)),
                             !.fail_reasons = IF cmp.is_passed THEN @
                                              ELSE Append(@, cmp.cur_fail_reason) ],
                 items, i + 1, current_result, storage)

ValidateLoop(vs, items, i, current_result, storage) ==
    IF i > Len(items)
    THEN IF vs.fail_reasons # << >>
         THEN [ vs EXCEPT !.raised = [ kind |-> "Failed", cause |-> "none",
                                       lines |-> vs.fail_reasons ] ]
         ELSE vs
    ELSE
    LET cur_res_addr == items[i].k
        cur_metric_requirements == items[i].v
        current_metric == CurrentMetric(current_result, cur_res_addr)
        bounds == get_min_max_value_from_expected_metrics(cur_metric_requirements,
                                                          storage)
        cmp == compare(current_metric.val, cur_res_addr,
                       bounds.val[1], bounds.val[2], bounds.val[3])
        NoBounds == << PyNone, PyNone, PyNone >>
    IN  IF current_metric.exc # "none"
        THEN ValidateRaise(vs, CheckEvent(cur_res_addr, PyNone, NoBounds, FALSE),
                           IF Caught(current_metric.exc) THEN "ValueError"
                           ELSE current_metric.exc,
                           IF Caught(current_metric.exc) THEN current_metric.exc
                           ELSE "none")
        ELSE IF bounds.exc # "none"
        THEN ValidateRaise(vs, CheckEvent(cur_res_addr, current_metric.val, NoBounds, FALSE),
                           IF Caught(bounds.exc) THEN "ValueError" ELSE bounds.exc,
                           IF Caught(bounds.exc) THEN bounds.exc ELSE "none")
        ELSE IF cmp.exc # "none"
        THEN ValidateRaise(vs, CheckEvent(cur_res_addr, current_metric.val, bounds.val, FALSE),
                           cmp.exc, "none")
        ELSE ValidateLoop(
                 [ vs EXCEPT !.trace = Append(@, CheckEvent(cur_res_addr, current_metric.val,
                                                            bounds.val, cmp.is_passed)),
                             !.fail_reasons = IF cmp.is_passed THEN @
                                              ELSE Append(@, cmp.cur_fail_reason) ],
                 items, i + 1, current_result, storage)

\* A callback is the closure that the fixture built: calling it returns the
\* items of the expected metrics of the test, or raises ValueError.
Callable(items) == [ t |-> "callable", v |-> items ]
RaisingCallable == [ t |-> "raising", v |-> << >> ]

\* _get_expected_metrics_callback, the closure of the fixture over the
\* expected metrics of all tests and the parameters string of the test.
get_expected_metrics_callback_MissingIsEmpty(expected_metrics_all_tests, current_test_parameters_string) ==
    IF expected_metrics_all_tests.t = "None" THEN Callable(<< >>)
    ELSE IF current_test_parameters_string \notin DOMAIN expected_metrics_all_tests.v
    THEN Callable(<< >>)
    ELSE IF expected_metrics_all_tests.v[current_test_parameters_string].t # "dict"
    THEN RaisingCallable
    ELSE Callable(expected_metrics_all_tests.v[current_test_parameters_string].v)

get_expected_metrics_callback(expected_metrics_all_tests, current_test_parameters_string) ==
    IF expected_metrics_all_tests.t = "None" THEN RaisingCallable
    ELSE IF current_test_parameters_string \notin DOMAIN expected_metrics_all_tests.v
    THEN RaisingCallable
    ELSE IF expected_metrics_all_tests.v[current_test_parameters_string].t # "dict"
    THEN RaisingCallable
    ELSE Callable(expected_metrics_all_tests.v[current_test_parameters_string].v)

REALLIFE_USECASE_CONSTANT == "reallife"

\* The fixture cur_test_expected_metrics_callback_fx: None for a test that is
\* not of the reallife usecase.
cur_test_expected_metrics_callback_fx(expected_metrics_all_tests, current_test_parameters_string, usecase) ==
    IF REALLIFE_USECASE_CONSTANT # usecase THEN PyNone
    ELSE get_expected_metrics_callback(expected_metrics_all_tests,
                                       current_test_parameters_string)

\* validate from the call of the callback on.
ValidateWithCallback(callback, current_result, storage) ==
    IF callback.t = "raising"
    THEN [ ValidateState EXCEPT !.raised.kind = "ValueError" ]
    ELSE ValidateLoop(ValidateState, callback.v, 1, current_result, storage)

validate_FirstReasonOnly(callback, current_result, storage) ==
    IF callback.t = "None" THEN ValidateState
    ELSE LET vs == ValidateWithCallback(callback, current_result, storage)
         IN  IF vs.raised.kind = "Failed"
             THEN [ vs EXCEPT !.raised.lines = << Head(@) >> ]
             ELSE vs

\* validate that takes a missing callback for an error.
validate_CallbackRequired(callback, current_result, storage) ==
    IF callback.t = "None"
    THEN [ ValidateState EXCEPT !.raised.kind = "ValueError" ]
    ELSE ValidateWithCallback(callback, current_result, storage)

\* Validator.validate: a Validator without callback checks nothing; otherwise
\* the callback is called and the items of the mapping that it returns are
\* checked in order.
validate(callback, current_result, storage) ==
    IF callback.t = "None" THEN ValidateState
    ELSE ValidateWithCallback(callback, current_result, storage)

----------------------------------------------------------------------------
\* The calls of the functions of the validator, on arguments drawn from
\* bounded sets.

\* Addresses have at most MaxAddressLen characters; a mapping of expected
\* metrics has at most MaxMetrics items.
MaxAddressLen == 3
MaxMetrics == 2

Chars == { "a", "b", "." }
Addresses == UNION { [ 1..n -> Chars ] : n \in 0..MaxAddressLen }

Structs ==
    << PyDict(<< >>),
      PyDict(<< "a" >> :> PyFloat(5)),
      PyDict(<< "a" >> :> PyDict(<< "b" >> :> PyFloat(5))),
      PyDict(<< "a" >> :> PyDict(<< "b" >> :> PyDict(<< "a" >> :> PyFloat(5)))),
      PyDict((<< >> :> PyFloat(7)) @@ (<< "b" >> :> PyStr(<< "5" >>))),
      PyDict((<< >> :> PyDict(<< >> :> PyFloat(7)))
             @@ (<< "a", "b" >> :> PyDict(<< "a" >> :> PyFloat(5)))) >>

\* The requirements for a metric: every key is absent or has one of a few
\* values.
Absent == [ t |-> "absent", v |-> 0 ]
AbsentStr == [ t |-> "absent", v |-> << >> ]
RequirementKeys ==
    { "target_value", "base", "max_diff", "max_diff_if_less_threshold",
      "max_diff_if_greater_threshold" }
TargetValues == { Absent, PyInt(5), PyNaN }
Bases == { AbsentStr, PyStr(<< "a" >>), PyStr(<< "b" >>) }
Tolerances == { Absent, PyNone, PyInt(0), PyFloat(2), PyInt(-1), PyNaN }

Requirement(full) ==
    [ k \in { key \in RequirementKeys : full[key].t # "absent" } |-> full[k] ]

Requirements ==
    { Requirement([ target_value |-> tv, base |-> b, max_diff |-> d,
                    max_diff_if_less_threshold |-> l,
                    max_diff_if_greater_threshold |-> g ]) :
        tv \in TargetValues, b \in Bases, d \in Tolerances,
        l \in Tolerances, g \in Tolerances }

\* The requirements of the example in the documentation of the expected
\* metrics file: a target value or a base, with the key 'max_drop'.
DocumentedRequirements ==
    { [ target_value |-> PyInt(5), max_drop |-> PyInt(1) ],
      [ base |-> PyStr(<< "a" >>), max_drop |-> PyInt(1) ] }

\* The storage of the results of the previous stages, for the key 'base'.
Storages == { PyDict(<< "a" >> :> PyFloat(4)) }

\* The values of a metric of the current result.
Observed == { PyFloat(n) : n \in 1..8 } \cup { PyNaN }

\* One expected metric "a" with any requirement.
OneMetricCalls ==
    { [ callback |-> Callable(<< [ k |-> PyStr(<< "a" >>), v |-> r ] >>),
        current_result |-> PyDict(<< "a" >> :> x),
        storage |-> st ] :
        r \in Requirements, x \in Observed, st \in Storages }

\* Several expected metrics, each with one of a few requirements, on results
\* whose metrics are in the range, out of it or absent.
MetricAddresses == { << "a" >>, << "b" >>, << "a", "b" >> }
FewRequirements ==
    << [ target_value |-> PyInt(5), max_diff |-> PyInt(1) ],
       [ base |-> PyStr(<< "a" >>), max_diff_if_greater_threshold |-> PyInt(1) ],
       [ max_diff |-> PyInt(1) ] >>
FewObserved == { PyFloat(5), PyFloat(9), Absent }

CurrentResult(values) ==
    PyDict([ k \in { key \in MetricAddresses : values[key].t # "absent" } |-> values[k] ])

ItemsOf(addrs, reqs) ==
    [ i \in 1..Len(addrs) |-> [ k |-> PyStr(addrs[i]), v |-> FewRequirements[reqs[i]] ] ]

SeveralMetricsCalls ==
    { [ callback |-> Callable(ItemsOf(addrs, reqs)),
        current_result |-> CurrentResult(values),
        storage |-> st ] :
        addrs \in { a \in UNION { [ 1..n -> MetricAddresses ] : n \in 2..MaxMetrics } :
                       \A i, j \in 1..Len(a) : i # j => a[i] # a[j] },
        reqs \in [ 1..MaxMetrics -> 1..Len(FewRequirements) ],
        values \in [ MetricAddresses -> FewObserved ],
        st \in Storages }

NoCallbackCalls ==
    { [ callback |-> PyNone, current_result |-> PyDict(<< "a" >> :> x),
        storage |-> st ] : x \in Observed, st \in Storages }

\* The expected metrics of all tests, as read from the file: None when the
\* file is not given, else a mapping from parameters strings to the expected
\* metrics of a test (here one metric "a"), which have to be a mapping.
TestIds == { "id1", "id2" }
OneMetricItems ==
    << [ k |-> PyStr(<< "a" >>), v |-> [ target_value |-> PyInt(5), max_diff |-> PyInt(1) ] ] >>
ExpectedMetricsAllTests ==
    << PyNone,
       PyDict(<< >>),
       PyDict("id1" :> PyDict(OneMetricItems)),
       PyDict(("id1" :> PyDict(OneMetricItems)) @@ ("id2" :> PyInt(5))) >>
Usecases == { "precommit", REALLIFE_USECASE_CONSTANT }

NewCall(fn, args) == [ fn |-> fn, args |-> args, done |-> FALSE, result |-> << >> ]

\* A call of get_value_from_dict_by_dot_separated_address.
GetValue ==
    /\ call.fn = "get_value" /\ ~call.done
    /\ call' = [ call EXCEPT !.done = TRUE,
                              !.result = get_value_from_dict_by_dot_separated_address(
                                             call.args.struct, call.args.address) ]
    /\ UNCHANGED << test_case_vars, cache_vars, stack >>

\* A call of Validator._get_min_max_value_from_expected_metrics.
GetMinMax ==
    /\ call.fn = "get_min_max" /\ ~call.done
    /\ call' = [ call EXCEPT !.done = TRUE,
                              !.result = get_min_max_value_from_expected_metrics(
                                             call.args.cur_metric_requirements,
                                             call.args.storage) ]
    /\ UNCHANGED << test_case_vars, cache_vars, stack >>

\* A call of Validator.validate.
ValidatorValidate ==
    /\ call.fn = "validate" /\ ~call.done
    /\ call' = [ call EXCEPT !.done = TRUE,
                              !.result = validate(call.args.callback,
                                                  call.args.current_result,
                                                  call.args.storage) ]
    /\ UNCHANGED << test_case_vars, cache_vars, stack >>

\* The prior results handed to an action that is called directly: the results
\* of any set of the stages whose results some action reads, in the order
\* of the test stages.
StagesWithResults == UNION { stages_read[s] : s \in Stages }
ResultsOf(present) ==
    LET names == SelectSeq(TEST_STAGES, LAMBDA s : s \in present)
    IN  [ i \in 1..Len(names) |-> [ key |-> names[i],
                                    value |-> [ stage |-> names[i], n |-> 1 ] ] ]

\* A call action(data_collector, results_prev_stages) of the action of a stage.
ActionCall ==
    /\ call.fn = "action" /\ ~call.done
    /\ call' = [ call EXCEPT !.done = TRUE,
                              !.result = ActionOutcome(call.args.stage,
                                                       call.args.results_prev_stages,
                                                       call.args.enabled,
                                                       [ fail |-> call.args.fail ]) ]
    /\ UNCHANGED << test_case_vars, cache_vars, stack >>

\* Strings of the test ids are sequences of words and of the signs "," and
\* "-"; no word is made of other words or signs.
\* str(value) of the f-string: the decimal digits of an int, the string itself.
RECURSIVE Digits(_)
Digits(n) ==
    LET d == << "0", "1", "2", "3", "4", "5", "6", "7", "8", "9" >>[(n % 10) + 1]
    IN  IF n < 10 THEN << d >> ELSE Digits(n \div 10) \o << d >>

str(value) == IF value.t = "int" THEN Digits(value.v) ELSE value.v

\* TestOTEIntegration.SHORT_TEST_PARAMETERS_NAMES_FOR_GENERATING_ID, in order.
SHORT_TEST_PARAMETERS_NAMES_FOR_GENERATING_ID ==
    << << "test_stage", "ACTION" >>,
       << "model_name", "model" >>,
       << "dataset_name", "dataset" >>,
       << "num_training_iters", "num_iters" >>,
       << "batch_size", "batch" >>,
       << "usecase", "usecase" >> >>

\* `','.join(id_parts)`
RECURSIVE join(_, _)
join(sep, parts) ==
    IF parts = << >> THEN << >>
    ELSE IF Len(parts) = 1 THEN parts[1]
    ELSE parts[1] \o sep \o join(sep, Tail(parts))

\* The id parts f'{short_par_name}-{test_parameters[par_name]}' of the
\* first n parameters.
IdParts(test_parameters, n) ==
    [ i \in 1..n |->
        << SHORT_TEST_PARAMETERS_NAMES_FOR_GENERATING_ID[i][2], "-" >>
            \o str(test_parameters[SHORT_TEST_PARAMETERS_NAMES_FOR_GENERATING_ID[i][1]]) ]

\* TestOTEIntegration._generate_test_id
generate_test_id(test_parameters) ==
    join(<< "," >>, IdParts(test_parameters,
                            Len(SHORT_TEST_PARAMETERS_NAMES_FOR_GENERATING_ID)))

\* The names of models and datasets of the test parameters: a name is any
\* string, so besides plain names there are names with a comma in them.
PlainNames == { << "x" >>, << "y" >> }
Names ==
    PlainNames \cup { a \o << ",", "dataset", "-" >> \o b : a, b \in PlainNames }

\* num_training_iters is an int or a string (KEEP_CONFIG_FIELD_VALUE).
NumTrainingIters == << PyInt(1), PyStr(<< "1" >>), PyInt(12) >>

TestParameters(i) ==
    { [ test_stage |-> PyStr(<< stage >>),
        model_name |-> PyStr(model),
        dataset_name |-> PyStr(dataset),
        num_training_iters |-> NumTrainingIters[i],
        batch_size |-> PyInt(2),
        usecase |-> PyStr(<< usecase >>) ] :
        stage \in { "training" }, model \in Names, dataset \in Names,
        usecase \in Usecases }

\* The calls of _generate_test_id for two test parameters.
GenerateTestId ==
    /\ call.fn = "generate_test_id" /\ ~call.done
    /\ call' = [ call EXCEPT !.done = TRUE,
                              !.result = [ a |-> generate_test_id(call.args.a),
                                           b |-> generate_test_id(call.args.b) ] ]
    /\ UNCHANGED << test_case_vars, cache_vars, stack >>

\* OpenVINODetectionTask and the ModelEntity that optimize fills.  The task
\* holds the model it was created with and the inferencer loaded from it.
OpenVINOTask == [ model |-> "exported_model", inferencer |-> "inferencer_of_exported_model" ]
NewModelEntity ==
    [ model_status |-> "NOT_READY", model_format |-> "unset",
      optimization_type |-> "unset", has_data |-> FALSE ]

\* optimize that takes a model with FakeQuantize nodes for an optimized one.
optimize_QuantizedIsSuccess(task, optimization_type, quantized, output_model) ==
    IF optimization_type # "POT"
    THEN [ exc |-> "ValueError", task |-> task, output_model |-> output_model ]
    ELSE [ exc |-> "none",
           task |-> IF quantized THEN task
                    ELSE [ model |-> "output_model", inferencer |-> "inferencer_of_output_model" ],
           output_model |-> [ model_status |-> "SUCCESS", model_format |-> "OPENVINO",
                              optimization_type |-> "POT", has_data |-> ~quantized ] ]

\* OpenVINODetectionTask.optimize; quantized tells whether the model of the
\* task has FakeQuantize nodes.
optimize(task, optimization_type, quantized, output_model) ==
    IF optimization_type # "POT"
    THEN [ exc |-> "ValueError", task |-> task, output_model |-> output_model ]
    ELSE IF quantized
    THEN [ exc |-> "none", task |-> task,
           output_model |-> [ output_model EXCEPT !.model_status = "FAILED" ] ]
    ELSE [ exc |-> "none",
           task |-> [ model |-> "output_model", inferencer |-> "inferencer_of_output_model" ],
           output_model |-> [ model_status |-> "SUCCESS", model_format |-> "OPENVINO",
                              optimization_type |-> "POT", has_data |-> TRUE ] ]

\* OTETestPotAction._run_ote_pot: optimize of a new task into a new model
\* entity, and the asserts on the model entity.
run_ote_pot(quantized) ==
    LET r == optimize(OpenVINOTask, "POT", quantized, NewModelEntity)
    IN  IF r.exc # "none" THEN r
        ELSE IF r.output_model.model_status # "SUCCESS"
        THEN [ r EXCEPT !.exc = "AssertionError" ]
        ELSE IF r.output_model.model_format # "OPENVINO"
        THEN [ r EXCEPT !.exc = "AssertionError" ]
        ELSE IF r.output_model.optimization_type # "POT"
        THEN [ r EXCEPT !.exc = "AssertionError" ]
        ELSE r

\* The stage whose action raises in a run_stage call, when nothing but the
\* optimization of a quantized model goes wrong.
PotFailInput(quantized) ==
    IF run_ote_pot(quantized).exc # "none" THEN "pot" ELSE NoStage

\* The state of a new test case after run_once of the stage, and after a
\* second run_once of the same stage.
RunOnceTwice(stage_name, validator, inp) ==
    LET first == run_once(CallState, stage_name, validator, FALSE, inp)
        again == [ first EXCEPT !.trace = << >>, !.raised = NoException ]
    IN  [ first |-> first,
          second |-> run_once(again, stage_name, validator, FALSE, inp) ]

\* A call of OpenVINODetectionTask.optimize.
Optimize ==
    /\ call.fn = "optimize" /\ ~call.done
    /\ call' = [ call EXCEPT !.done = TRUE,
                              !.result = optimize(call.args.task,
                                                  call.args.optimization_type,
                                                  call.args.quantized,
                                                  call.args.output_model) ]
    /\ UNCHANGED << test_case_vars, cache_vars, stack >>

\* Two run_stage calls for a stage on a new test case, where the exported
\* model may be quantized already.
RunPotStages ==
    /\ call.fn = "run_pot_stages" /\ ~call.done
    /\ call' = [ call EXCEPT !.done = TRUE,
                              !.result = RunOnceTwice(
                                  call.args.stage_name, call.args.validator,
                                  [ fail |-> PotFailInput(call.args.quantized),
                                    validate |-> "pass" ]) ]
    /\ UNCHANGED << test_case_vars, cache_vars, stack >>

InitValidator ==
    /\ NewTestCase
    /\ nncf_enabled = FALSE
    /\ cache = << >>
    /\ dataset_definitions = "set"
    /\ objects_created = 0
    /\ cache_updates = 0
    /\ last_update = NoUpdate
    /\ first_update = NoUpdate
    /\ stack = << >>
    /\ \/ \E i \in 1..Len(Structs), address \in Addresses :
             call = NewCall("get_value", [ struct |-> Structs[i], address |-> PyStr(address) ])
       \/ \E r \in Requirements \cup DocumentedRequirements, st \in Storages :
             call = NewCall("get_min_max", [ cur_metric_requirements |-> r, storage |-> st ])
       \/ \E args \in OneMetricCalls \cup SeveralMetricsCalls :
             call = NewCall("validate", args)
       \/ \E args \in NoCallbackCalls :
             call = NewCall("validate", args)
       \/ \E i \in 1..Len(ExpectedMetricsAllTests), id \in TestIds,
             usecase \in Usecases, x \in Observed, st \in Storages :
             call = NewCall("validate",
                            [ callback |-> cur_test_expected_metrics_callback_fx(
                                               ExpectedMetricsAllTests[i], id, usecase),
                              current_result |-> PyDict(<< "a" >> :> x),
                              storage |-> st,
                              expected_metrics_all_tests |-> ExpectedMetricsAllTests[i],
                              current_test_parameters_string |-> id,
                              usecase |-> usecase ])
       \/ \E i, j \in 1..Len(Structs) :
             call = NewCall("validate", [ callback |-> PyNone,
                                          current_result |-> Structs[i],
                                          storage |-> Structs[j] ])
       \/ \E s \in Stages, present \in SUBSET StagesWithResults, enabled \in BOOLEAN :
           \E fail \in { NoStage, s } :
             call = NewCall("action", [ stage |-> s,
                                        results_prev_stages |-> ResultsOf(present),
                                        enabled |-> enabled,
                                        fail |-> fail ])

       \/ \E i, j \in 1..Len(NumTrainingIters) :
           \E a \in TestParameters(i), b \in TestParameters(j) :
             call = NewCall("generate_test_id", [ a |-> a, b |-> b ])
       \/ \E optimization_type \in { "POT", "NNCF" }, quantized \in BOOLEAN :
             call = NewCall("optimize", [ task |-> OpenVINOTask,
                                          optimization_type |-> optimization_type,
                                          quantized |-> quantized,
                                          output_model |-> NewModelEntity ])
       \/ \E stage_name \in { "export_evaluation", "pot", "pot_evaluation" },
             validator \in Validators, quantized \in BOOLEAN :
             call = NewCall("run_pot_stages", [ stage_name |-> stage_name,
                                                validator |-> validator,
                                                quantized |-> quantized ])

NextValidator ==
    \/ GetValue \/ GetMinMax \/ ValidatorValidate \/ ActionCall \/ GenerateTestId
    \/ Optimize \/ RunPotStages

SpecValidator == InitValidator /\ [][NextValidator]_vars

----------------------------------------------------------------------------
\* run_stage step by step: every frame of the stack is one call of run_once,
\* with its stage, the position i of its loop over depends_stages and its
\* validator.  An exception is caught by no frame but the one of its action
\* (which raises it again), so it ends the run_stage call.

\* At most MaxStepCalls run_stage calls are made.
MaxStepCalls == 2

Frame(s, validator) == [ stage |-> s, i |-> 1, validator |-> validator ]

\* The call run_stage(stage_name, data_collector, validator) begins.
BeginRunStage(stage_name, validator) ==
    /\ stack = << >>
    /\ run_stage_calls < MaxStepCalls
    /\ run_stage_calls' = run_stage_calls + 1
    /\ stack' = << Frame(stage_name, validator) >>
    /\ last' = [ stage |-> stage_name, validator |-> validator,
                 trace |-> << >>, raised |-> NoException ]
    /\ UNCHANGED << was_processed, stored_exception, stage_results,
                    test_results_storage, action_calls, nncf_enabled, succeeded_as,
                    cache_vars, call >>

\* One turn of the loop `for dep_stage in self.depends_stages` of the
\* run_once on top of the stack: the call of run_once of the dependency stage.
RunDependStage ==
    /\ stack # << >>
    /\ LET top == stack[Len(stack)]
       IN  /\ top.i <= Len(depends_stages[top.stage])
           /\ stack' = Append([ stack EXCEPT ![Len(stack)].i = top.i + 1 ],
                              Frame(depends_stages[top.stage][top.i], "None"))
    /\ UNCHANGED << test_case_vars, cache_vars, call >>

\* run_once of stage s after its loop over the dependency stages.
AfterDependsStages(st, s, validator, enabled, inp) ==
    IF st.was_processed[s]
    THEN AlreadyProcessed(st, s, validator, inp)
    ELSE IF s \in Keys(st.test_results_storage)
    THEN [ st EXCEPT !.raised = [ kind |-> "duplicate", stage |-> s, n |-> 0 ] ]
    ELSE LET a == RunMainAction(st, s, enabled, inp)
         IN  IF a.raised # NoException
             THEN a
             ELSE RunValidation(a, s, validator, inp)

\* The run_once on top of the stack, whose loop is over, goes on to its end:
\* it returns to its caller, or it raises and the run_stage call is over.
FinishRunOnce(inp) ==
    /\ stack # << >>
    /\ LET top == stack[Len(stack)]
       IN  /\ top.i > Len(depends_stages[top.stage])
           /\ inp.fail \in { NoStage, top.stage }
           /\ \E st \in { AfterDependsStages([ CallState EXCEPT !.trace = last.trace ],
                                              top.stage, top.validator,
                                              nncf_enabled, inp) } :
                /\ was_processed' = st.was_processed
                /\ stored_exception' = st.stored_exception
                /\ stage_results' = st.stage_results
                /\ test_results_storage' = st.test_results_storage
                /\ action_calls' = st.action_calls
                /\ succeeded_as' =
                      [ s \in Stages |->
                          IF s = top.stage /\ st.action_calls[s] # action_calls[s]
                             /\ st.was_processed[s] /\ st.stored_exception[s] = NoException
                          THEN (IF Len(stack) = 1 THEN "direct" ELSE "dependency")
                          ELSE succeeded_as[s] ]
                /\ last' = [ last EXCEPT !.trace = st.trace, !.raised = st.raised ]
                /\ stack' = IF st.raised # NoException
                            THEN << >>
                            ELSE SubSeq(stack, 1, Len(stack) - 1)
    /\ UNCHANGED << nncf_enabled, run_stage_calls, cache_vars, call >>

InitSteps == Init

Step ==
    \/ RunDependStage
    \/ \E fail \in Stages \cup { NoStage }, outcome \in ValidateOutcomes :
          FinishRunOnce([ fail |-> fail, validate |-> outcome ])

NextSteps ==
    \/ \E stage_name \in Stages, validator \in Validators :
          BeginRunStage(stage_name, validator)
    \/ Step

\* The interpreter goes on with the call under way, and every action and
\* every validation returns or raises.
SpecSteps == InitSteps /\ [][NextSteps]_vars /\ WF_vars(Step)

----------------------------------------------------------------------------
\* The states of a stage (not-run is ~was_processed).
Succeeded(s) == was_processed[s] /\ stored_exception[s] = NoException
Failed(s) == was_processed[s] /\ stored_exception[s] # NoException

\* The stages that the call run_stage(r, ...) may reach.
Reached(r) == { r } \cup transitive_depends[r]

\* The positions of the invocations of the action of stage s in trace.
ActionEventsOf(trace, s) ==
    { i \in 1..Len(trace) : trace[i].ev = "action" /\ trace[i].stage = s }

ActionEvents(trace) == { i \in 1..Len(trace) : trace[i].ev = "action" }
ValidateEvents(trace) == { i \in 1..Len(trace) : trace[i].ev = "validate" }

IsPrefix(p, q) == Len(p) <= Len(q) /\ \A i \in 1..Len(p) : p[i] = q[i]

----------------------------------------------------------------------------
\* C1: once the action of a stage was executed successfully, every later
\* run_stage call that reaches the stage (as the requested stage or as a
\* dependency) leaves the stage succeeded, leaves stage_results and the
\* entry of the storage for its name the very same result, and does not
\* invoke the action again.
C1_RerunAfterSuccessKeepsResult ==
    [][ \A s \in Stages :
          (succeeded_as[s] # "never" /\ s \in Reached(last'.stage))
          => /\ was_processed'[s] /\ stored_exception'[s] = NoException
             /\ stage_results[s] # NoResult
             /\ stage_results'[s] = stage_results[s]
             /\ s \in Keys(test_results_storage)
             /\ s \in Keys(test_results_storage')
             /\ Lookup(test_results_storage, s) = stage_results[s]
             /\ Lookup(test_results_storage', s) = stage_results[s]
             /\ action_calls'[s] = action_calls[s]
             /\ ActionEventsOf(last'.trace, s) = { } ]_vars

\* A succeeded stage was requested again, and another one was reached again as
\* a dependency, in a call that invoked neither action.
C1_Witness ==
    /\ last.stage = "training_evaluation"
    /\ Succeeded("training_evaluation") /\ Succeeded("training")
    /\ action_calls["training_evaluation"] = 1 /\ action_calls["training"] = 1
    /\ last.trace = << >>
    /\ run_stage_calls >= 2

\* C2: for a stage whose action raised an exception, every later run_once
\* call on that stage re-raises that same stored exception and does not invoke
\* the action again.
C2_RerunAfterFailureReraises ==
    [][ \A s \in Stages :
          Failed(s)
          => /\ was_processed'[s]
             /\ stored_exception'[s] = stored_exception[s]
             /\ action_calls'[s] = action_calls[s]
             /\ last'.stage = s => /\ last'.raised = stored_exception[s]
                                   /\ ActionEvents(last'.trace) = { } ]_vars

\* A failed stage was requested again and the caller got its stored exception.
C2_Witness ==
    /\ last.stage = "export"
    /\ Failed("export")
    /\ last.raised = stored_exception["export"]
    /\ last.raised.kind = "error"
    /\ last.trace = << >>
    /\ action_calls["export"] = 1

\* C3: on a fresh test case where no action fails, run_stage('pot_evaluation')
\* executes the actions of training, export, pot and training_evaluation, each
\* exactly once and all before the action of pot_evaluation, and the action of
\* every stage runs after the actions of all its declared dependencies.
C3_PotEvaluationDependencyOrder ==
    (/\ run_stage_calls = 1
     /\ last.stage = "pot_evaluation"
     /\ \A i \in ActionEvents(last.trace) : last.trace[i].outcome = "ok")
    => LET t == last.trace
           ran == { t[i].stage : i \in ActionEvents(t) }
       IN  /\ ran = { "training", "export", "pot", "training_evaluation",
                      "pot_evaluation" }
           /\ \A s \in ran : Cardinality(ActionEventsOf(t, s)) = 1
           /\ \A s \in ran : action_calls[s] = 1
           /\ \A i \in ActionEvents(t) :
                /\ t[i].stage # "pot_evaluation"
                    => \E j \in ActionEventsOf(t, "pot_evaluation") : i < j
                /\ \A k \in 1..Len(depends_stages[t[i].stage]) :
                     \E j \in ActionEventsOf(t, depends_stages[t[i].stage][k]) : j < i

C3_Witness ==
    /\ run_stage_calls = 1
    /\ last.stage = "pot_evaluation"
    /\ Succeeded("pot_evaluation")
    /\ Len(test_results_storage) = 5

\* C4: within one run_stage(name, validator) call Validator.validate is
\* invoked for at most one stage, the stage named in the call, and only when
\* the action of that stage is made with validation (and a validator is
\* given); it is never invoked for a stage reached as a dependency.
C4_ValidationOnlyForRequestedStage ==
    /\ Cardinality(ValidateEvents(last.trace)) <= 1
    /\ \A i \in ValidateEvents(last.trace) :
         /\ last.trace[i].stage = last.stage
         /\ with_validation[last.stage]
         /\ last.validator # "None"

\* An evaluation stage was executed as a dependency of a requested and
\* validated evaluation stage.
C4_Witness ==
    /\ last.stage = "pot_evaluation"
    /\ last.validator = "callback"
    /\ ActionEventsOf(last.trace, "training_evaluation") # { }
    /\ \E i \in ValidateEvents(last.trace) : last.trace[i].stage = "pot_evaluation"

\* C5 as stated: if a transitive dependency of the requested stage is in the
\* failed state or fails during the call, the action of the requested stage is
\* not executed in the call and the caller receives the exception of the
\* (a failed) dependency.
C5_CallerGetsFailedDependencyException ==
    (last.stage \in Stages /\ \E d \in transitive_depends[last.stage] : Failed(d))
    => /\ ActionEventsOf(last.trace, last.stage) = { }
       /\ \E d \in transitive_depends[last.stage] :
            Failed(d) /\ last.raised = stored_exception[d]

\* C5, amended: if a transitive dependency of the requested stage is in the
\* failed state or fails during the call, the action of the requested stage is
\* not executed in the call, and the caller receives an exception raised by a
\* dependency: the stored exception of a failed dependency, or the skip of
\* the nncf action when nncf is a dependency that is run before the failed one.
C5_CallerGetsDependencyExceptionOrSkip ==
    (last.stage \in Stages /\ \E d \in transitive_depends[last.stage] : Failed(d))
    => /\ ActionEventsOf(last.trace, last.stage) = { }
       /\ \/ \E d \in transitive_depends[last.stage] :
               Failed(d) /\ last.raised = stored_exception[d]
          \/ /\ last.raised.kind = "skipped"
             /\ last.raised.stage = "nncf"
             /\ "nncf" \in transitive_depends[last.stage]
             /\ ActionEventsOf(last.trace, "nncf") # { }

\* A dependency failed during the call, after another dependency succeeded,
\* and the caller got its exception.
C5_Witness ==
    /\ last.stage = "pot_evaluation"
    /\ ~was_processed["pot_evaluation"]
    /\ Succeeded("pot")
    /\ Failed("training_evaluation")
    /\ ActionEventsOf(last.trace, "training_evaluation") # { }
    /\ last.raised = stored_exception["training_evaluation"]

\* C6: when the action of a stage raises an exception, the stage becomes
\* processed with that exception stored, the exception is what the caller
\* receives, and the storage is left as it was when the action was invoked: no
\* key for the stage is added, the entries it had are kept in place, and the
\* only new entries are those of the stages whose action succeeded before.
C6_FailedActionStoresExceptionOnly ==
    [][ \A i \in ActionEvents(last'.trace) :
          last'.trace[i].outcome \in { "error", "missing", "keyerror" }
          => LET s == last'.trace[i].stage
             IN  /\ i = Len(last'.trace)
                 /\ ~was_processed[s]
                 /\ was_processed'[s]
                 /\ stored_exception'[s] # NoException
                 /\ stored_exception'[s].stage = s
                 /\ stored_exception'[s].n = action_calls'[s]
                 /\ last'.raised = stored_exception'[s]
                 /\ stage_results'[s] = NoResult
                 /\ s \notin Keys(test_results_storage')
                 /\ IsPrefix(test_results_storage, test_results_storage')
                 /\ Keys(test_results_storage') =
                      Keys(test_results_storage) \cup SucceededIn(last'.trace)
                 /\ Len(test_results_storage') =
                      Len(test_results_storage) + Cardinality(SucceededIn(last'.trace)) ]_vars

\* The action of pot raised while the storage held the results of training and export.
C6_Witness ==
    /\ last.stage = "pot"
    /\ Len(last.trace) = 1
    /\ last.trace[1] = ActionEvent("pot", "error")
    /\ Failed("pot")
    /\ last.raised = stored_exception["pot"]
    /\ Keys(test_results_storage) = { "training", "export" }

\* C7: over any sequence of run_stage calls the storage only grows: every
\* stage name is inserted at most once, and an inserted entry is never
\* overwritten, moved or removed.
C7_StorageOnlyGrows ==
    [][ /\ IsPrefix(test_results_storage, test_results_storage')
        /\ \A i, j \in 1..Len(test_results_storage') :
             test_results_storage'[i].key = test_results_storage'[j].key => i = j ]_vars

\* The storage got entries in two different calls.
C7_Witness ==
    /\ Len(test_results_storage) >= 4
    /\ SucceededIn(last.trace) # { }
    /\ Keys(test_results_storage) \ SucceededIn(last.trace) # { }

\* C8: if an evaluation stage was first executed successfully as a dependency
\* (so without validation) and is later requested directly with a validator,
\* the later call runs the validation on the cached result and does not
\* execute the action of the stage again.
C8_DirectRequestValidatesCachedResult ==
    [][ \A s \in Stages :
          (/\ with_validation[s]
           /\ succeeded_as[s] = "dependency"
           /\ last'.stage = s
           /\ last'.validator # "None")
          => /\ Len(last'.trace) = 1
             /\ last'.trace[1].ev = "validate"
             /\ last'.trace[1].stage = s
             /\ last'.trace[1].result = stage_results[s]
             /\ stage_results[s] # NoResult
             /\ stage_results'[s] = stage_results[s]
             /\ action_calls'[s] = action_calls[s] ]_vars

\* training_evaluation was executed as a dependency of pot_evaluation and then
\* requested with a validator: the call only validated.
C8_Witness ==
    /\ succeeded_as["training_evaluation"] = "dependency"
    /\ last.stage = "training_evaluation"
    /\ last.validator = "callback"
    /\ Len(last.trace) = 1
    /\ last.trace[1].ev = "validate"
    /\ last.trace[1].result = stage_results["training_evaluation"]
    /\ action_calls["training_evaluation"] = 1

\* C9: after the action of a stage failed, only that stage and its transitive
\* dependents can no longer succeed: every stage that had succeeded stays
\* succeeded with its result in the storage, a stage that reaches a failed
\* stage does not succeed, and a requested stage that does not reach a failed
\* stage succeeds in a call in which no invoked action fails or skips.
C9_FailureAffectsOnlyDependents ==
    [][ /\ \A s \in Stages :
             Succeeded(s)
             => /\ was_processed'[s] /\ stored_exception'[s] = NoException
                /\ stage_results'[s] = stage_results[s]
                /\ s \in Keys(test_results_storage')
                /\ Lookup(test_results_storage', s) = stage_results[s]
        /\ \A s \in Stages :
             (\E d \in Reached(s) : Failed(d))
             => ~(was_processed'[s] /\ stored_exception'[s] = NoException)
        /\ ((\A d \in Reached(last'.stage) : ~Failed(d))
             /\ \A i \in ActionEvents(last'.trace) : last'.trace[i].outcome = "ok")
           => /\ was_processed'[last'.stage]
              /\ stored_exception'[last'.stage] = NoException
              /\ last'.stage \in Keys(test_results_storage') ]_vars

\* After export_evaluation failed, the request of pot (which does not depend
\* on it) executed the action of pot and succeeded, on the cached results of
\* training and export.
C9_Witness ==
    /\ Failed("export_evaluation")
    /\ last.stage = "pot"
    /\ Len(last.trace) = 1
    /\ last.trace[1] = ActionEvent("pot", "ok")
    /\ Succeeded("pot") /\ Succeeded("export") /\ Succeeded("training")
    /\ "pot" \in Keys(test_results_storage)

\* C10: over any sequence of run_stage calls every stage leaves the not-run
\* state at most once, and its action is invoked at most once, whatever way
\* the action ends (return, exception, or the skip of the nncf action).
C10_ActionInvokedAtMostOnce ==
    [][ \A s \in Stages :
          /\ was_processed[s] => was_processed'[s]
          /\ action_calls'[s] <= 1 ]_vars

\* The nncf stage and the stages that depend on it.
NncfStages == { s \in Stages : "nncf" \in Reached(s) }

\* C11: when the nncf action finds no nncf entry point in the template or
\* NNCF is not installed, the run_stage call ends in a skip and not in a
\* failure: the nncf stage is not put into the failed state (it stays not-run),
\* no exception is stored, no entry of nncf or of a stage that depends on it
\* is added to the storage, and a request of nncf or of one of its dependents
\* (nncf_evaluation, nncf_export, nncf_export_evaluation) whose training
\* succeeded ends in that skip.
C11_NncfUnavailableIsSkip ==
    /\ \A i \in ActionEvents(last.trace) :
         last.trace[i].outcome = "skipped"
         => /\ ~nncf_enabled
            /\ last.trace[i].stage = "nncf"
            /\ i = Len(last.trace)
            /\ last.stage \in NncfStages
            /\ last.raised = [ kind |-> "skipped", stage |-> "nncf",
                               n |-> action_calls["nncf"] ]
    /\ ~nncf_enabled
       => /\ \A s \in NncfStages :
               /\ ~was_processed[s]
               /\ stored_exception[s] = NoException
               /\ stage_results[s] = NoResult
               /\ s \notin Keys(test_results_storage)
          /\ (last.stage \in NncfStages /\ Succeeded("training"))
             => /\ last.raised.kind = "skipped"
                /\ \E i \in ActionEventsOf(last.trace, "nncf") :
                     last.trace[i].outcome = "skipped"

\* nncf_export_evaluation was requested after an earlier request had ended in
\* the skip of the nncf action, and ended in the skip of the nncf action too.
C11_Witness ==
    /\ ~nncf_enabled
    /\ last.stage = "nncf_export_evaluation"
    /\ last.raised.kind = "skipped"
    /\ action_calls["nncf"] = 2
    /\ Succeeded("training")
    /\ ~was_processed["nncf"]

----------------------------------------------------------------------------
\* A step of _update_test_case_in_cache that returned a test case.
UpdateReturned ==
    /\ cache_updates' = cache_updates + 1
    /\ last_update'.outcome = "returned"

\* The parameters of the call of this step are the ones in the cache before it.
SameParametersAsCached ==
    \A k \in TEST_PARAMETERS_DEFINING_IMPL_BEHAVIOR :
        k \in DOMAIN cache /\ cache[k] = last_update'.params[k]

\* C12: when the cache holds the test case of the previous test, a call of
\* _update_test_case_in_cache with the same model_name, dataset_name,
\* num_training_iters and batch_size returns that same test case object with
\* its storage and stage states untouched; a call where any of the four
\* differs returns a newly constructed test case whose storage is empty and
\* whose stages are all not-run.
C12_SameParametersSameTestCase ==
    [][ (UpdateReturned /\ TestCaseKey \in DOMAIN cache)
        => IF SameParametersAsCached
           THEN /\ last_update'.test_case = cache[TestCaseKey]
                /\ cache'[TestCaseKey] = cache[TestCaseKey]
                /\ UNCHANGED test_case_vars
           ELSE /\ last_update'.test_case \notin 0..objects_created
                /\ last_update'.test_case = objects_created'
                /\ test_results_storage' = << >>
                /\ \A s \in Stages : /\ ~was_processed'[s]
                                      /\ stored_exception'[s] = NoException
                                      /\ stage_results'[s] = NoResult
      ]_vars

\* The second call had the parameters of the first and returned the first test
\* case, which holds the results of the test run in between.
C12_Witness ==
    /\ cache_updates = 2
    /\ objects_created = 1
    /\ last_update.outcome = "returned"
    /\ last_update.test_case = 1
    /\ Succeeded("training")
    /\ "training" \in Keys(test_results_storage)

\* C13: after every call of _update_test_case_in_cache that returns, the cache
\* holds the four parameters of the call and exactly one test case, the
\* returned one; when the parameters changed, the previous test case is no
\* longer in the cache.
C13_CacheHoldsCurrentParametersAndOneTestCase ==
    [][ UpdateReturned
        => /\ DOMAIN cache' = TEST_PARAMETERS_DEFINING_IMPL_BEHAVIOR \cup { TestCaseKey }
           /\ \A k \in TEST_PARAMETERS_DEFINING_IMPL_BEHAVIOR :
                  cache'[k] = last_update'.params[k]
           /\ cache'[TestCaseKey] = last_update'.test_case
           /\ (TestCaseKey \in DOMAIN cache /\ ~SameParametersAsCached)
              => cache'[TestCaseKey] # cache[TestCaseKey]
      ]_vars

\* The parameters changed: the cache holds the second, newly constructed
\* test case and the new parameters.
C13_Witness ==
    /\ last_update.outcome = "returned"
    /\ objects_created = 2
    /\ TestCaseKey \in DOMAIN cache
    /\ cache[TestCaseKey] = 2
    /\ cache["dataset_name"] = "bbcd"
    /\ test_results_storage = << >>

----------------------------------------------------------------------------
\* A finished call of validate on a mapping of one expected metric, whose
\* metric is a float of the current result.
OneMetricValidated ==
    /\ call.fn = "validate" /\ call.done
    /\ call.args.callback.t = "callable"
    /\ Len(call.args.callback.v) = 1
    /\ call.args.callback.v[1].k.v \in DOMAIN call.args.current_result.v

\* The requirement and the observed value of that call.
TheRequirement == call.args.callback.v[1].v
TheObserved == call.args.current_result.v[call.args.callback.v[1].k.v]

IsNumber(x) == x.t \in { "int", "float" }

\* The requirement req names one target, a number: the value of
\* 'target_value' or the value of the storage at the one-segment address 'base'.
HasNumberTarget(req, storage) ==
    /\ ("target_value" \in DOMAIN req) # ("base" \in DOMAIN req)
    /\ "target_value" \in DOMAIN req => IsNumber(req["target_value"])
    /\ "base" \in DOMAIN req
       => /\ req["base"].v \in DOMAIN storage.v
          /\ IsNumber(storage.v[req["base"].v])

NumberTarget(req, storage) ==
    IF "target_value" \in DOMAIN req
    THEN req["target_value"].v
    ELSE storage.v[req["base"].v].v

ToleranceKeys ==
    { "max_diff", "max_diff_if_less_threshold", "max_diff_if_greater_threshold" }

\* The only tolerance key of req is key, with a non-negative number.
OnlyTolerance(req, key) ==
    /\ DOMAIN req \cap ToleranceKeys = { key }
    /\ IsNumber(req[key]) /\ req[key].v >= 0

\* C14: for a requirement with max_diff = d >= 0 and target T, the evaluator
\* returns (T, T - d, T + d), and the comparison of an observed value v
\* passes exactly when T - d <= v <= T + d, both bounds included.
C14_SymmetricRangeInclusive ==
    /\ (/\ call.fn = "get_min_max" /\ call.done
        /\ HasNumberTarget(call.args.cur_metric_requirements, call.args.storage)
        /\ OnlyTolerance(call.args.cur_metric_requirements, "max_diff"))
       => LET T == NumberTarget(call.args.cur_metric_requirements, call.args.storage)
              d == call.args.cur_metric_requirements["max_diff"].v
          IN  call.result = Returns(<< PyFloat(T), PyFloat(T - d), PyFloat(T + d) >>)
    /\ (/\ OneMetricValidated
        /\ HasNumberTarget(TheRequirement, call.args.storage)
        /\ OnlyTolerance(TheRequirement, "max_diff"))
       => LET T == NumberTarget(TheRequirement, call.args.storage)
              d == TheRequirement["max_diff"].v
              in_range == /\ TheObserved.t = "float"
                          /\ T - d <= TheObserved.v /\ TheObserved.v <= T + d
          IN  /\ Len(call.result.trace) = 1
              /\ call.result.trace[1].bounds
                    = << PyFloat(T), PyFloat(T - d), PyFloat(T + d) >>
              /\ call.result.trace[1].is_passed <=> in_range
              /\ call.result.raised.kind = (IF in_range THEN "none" ELSE "Failed")

\* The observed value 7 is the upper bound of target 5 with max_diff 2, and
\* passes.
C14_Witness ==
    /\ OneMetricValidated
    /\ OnlyTolerance(TheRequirement, "max_diff")
    /\ TheRequirement["max_diff"].v = 2
    /\ TheObserved = PyFloat(7)
    /\ Len(call.result.trace) = 1
    /\ call.result.trace[1].bounds = << PyFloat(5), PyFloat(3), PyFloat(7) >>
    /\ call.result.trace[1].is_passed
    /\ call.result.raised.kind = "none"

\* C15: a requirement with only max_diff_if_greater_threshold = g >= 0 has
\* the range (T, None, T + g) and passes exactly for observed <= T + g; one
\* with only max_diff_if_less_threshold = l >= 0 has the range
\* (T, T - l, None) and passes exactly for observed >= T - l.
C15_OneSidedRange ==
    (OneMetricValidated /\ HasNumberTarget(TheRequirement, call.args.storage))
    => LET T == NumberTarget(TheRequirement, call.args.storage)
           event == call.result.trace[1]
       IN  /\ OnlyTolerance(TheRequirement, "max_diff_if_greater_threshold")
              => LET g == TheRequirement["max_diff_if_greater_threshold"].v
                     in_range == TheObserved.t = "float" /\ TheObserved.v <= T + g
                 IN  /\ Len(call.result.trace) = 1
                     /\ event.bounds = << PyFloat(T), PyNone, PyFloat(T + g) >>
                     /\ event.is_passed <=> in_range
                     /\ call.result.raised.kind = (IF in_range THEN "none" ELSE "Failed")
           /\ OnlyTolerance(TheRequirement, "max_diff_if_less_threshold")
              => LET l == TheRequirement["max_diff_if_less_threshold"].v
                     in_range == TheObserved.t = "float" /\ TheObserved.v >= T - l
                 IN  /\ Len(call.result.trace) = 1
                     /\ event.bounds = << PyFloat(T), PyFloat(T - l), PyNone >>
                     /\ event.is_passed <=> in_range
                     /\ call.result.raised.kind = (IF in_range THEN "none" ELSE "Failed")

\* With only max_diff_if_greater_threshold = 2 and target 5, the observed
\* value 1, far below the target, passes.
C15_Witness ==
    /\ OneMetricValidated
    /\ OnlyTolerance(TheRequirement, "max_diff_if_greater_threshold")
    /\ TheRequirement["max_diff_if_greater_threshold"].v = 2
    /\ TheObserved = PyFloat(1)
    /\ Len(call.result.trace) = 1
    /\ call.result.trace[1].bounds = << PyFloat(5), PyNone, PyFloat(7) >>
    /\ call.result.trace[1].is_passed

\* A finished call of _get_min_max_value_from_expected_metrics.
MinMaxEvaluated == call.fn = "get_min_max" /\ call.done

\* C16: a requirement with both 'target_value' and 'base', or with neither,
\* is rejected with ValueError and gets no bounds, whatever its tolerance
\* keys are; validate then ends in a ValueError without comparing the metric.
C16_TargetAndBaseExclusive ==
    /\ MinMaxEvaluated
       => LET keys == DOMAIN call.args.cur_metric_requirements
          IN  ("target_value" \in keys) = ("base" \in keys)
              => call.result = Raises("ValueError")
    /\ OneMetricValidated
       => LET keys == DOMAIN TheRequirement
          IN  ("target_value" \in keys) = ("base" \in keys)
              => /\ call.result.raised.kind = "ValueError"
                 /\ call.result.raised.cause = "ValueError"
                 /\ Len(call.result.trace) = 1
                 /\ call.result.trace[1].bounds = << PyNone, PyNone, PyNone >>
                 /\ call.result.fail_reasons = << >>

\* A requirement with target_value, base and a valid max_diff was rejected.
C16_Witness ==
    /\ MinMaxEvaluated
    /\ DOMAIN call.args.cur_metric_requirements = { "target_value", "base", "max_diff" }
    /\ call.args.cur_metric_requirements["target_value"] = PyInt(5)
    /\ call.args.cur_metric_requirements["base"] = PyStr(<< "a" >>)
    /\ call.args.cur_metric_requirements["max_diff"] = PyFloat(2)
    /\ call.result = Raises("ValueError")

\* C17: a requirement is rejected with ValueError when it has 'max_diff'
\* together with an asymmetric key, when it has none of the three tolerance
\* keys, and when a tolerance is a negative number; an accepted requirement
\* has either 'max_diff' or asymmetric keys, never both, and each of its
\* tolerances is a number >= 0 (an asymmetric key may hold None, which stands
\* for an absent key, but not both of them).
C17_ToleranceShapeAndSign ==
    MinMaxEvaluated
    => LET req == call.args.cur_metric_requirements
           given == DOMAIN req \cap ToleranceKeys
           asymmetric == given \ { "max_diff" }
       IN  /\ ("max_diff" \in given /\ asymmetric # { })
              => call.result = Raises("ValueError")
           /\ given = { } => call.result = Raises("ValueError")
           /\ (\E k \in given : IsNumber(req[k]) /\ req[k].v < 0)
              => call.result = Raises("ValueError")
           /\ call.result.exc = "none"
              => /\ ("max_diff" \in given) # (asymmetric # { })
                 /\ \A k \in given :
                        \/ IsNumber(req[k]) /\ req[k].v >= 0
                        \/ k # "max_diff" /\ req[k].t = "None"
                 /\ \E k \in given : IsNumber(req[k])

\* A requirement with a valid target and upper tolerance was rejected for its
\* negative lower tolerance.
C17_Witness ==
    /\ MinMaxEvaluated
    /\ DOMAIN call.args.cur_metric_requirements
         = { "target_value", "max_diff_if_less_threshold",
             "max_diff_if_greater_threshold" }
    /\ call.args.cur_metric_requirements["target_value"] = PyInt(5)
    /\ call.args.cur_metric_requirements["max_diff_if_greater_threshold"] = PyFloat(2)
    /\ call.args.cur_metric_requirements["max_diff_if_less_threshold"] = PyInt(-1)
    /\ call.result = Raises("ValueError")

\* A finished call of get_value_from_dict_by_dot_separated_address.
ValueResolved == call.fn = "get_value" /\ call.done

\* The descent that C18 describes: one key per segment, the value reached is
\* returned, and an absent key or a value that is not a mapping while
\* segments remain is a ValueError.
RECURSIVE Descend(_, _)
Descend(value, segments) ==
    IF segments = << >> THEN Returns(value)
    ELSE IF value.t # "dict" THEN Raises("ValueError")
    ELSE IF Head(segments) \notin DOMAIN value.v THEN Raises("ValueError")
    ELSE Descend(value.v[Head(segments)], Tail(segments))

SameOutcome(r, expected) ==
    /\ r.exc = expected.exc
    /\ r.exc = "none" => r.val.t = expected.val.t /\ r.val = expected.val

\* C18: resolving a dot-separated address descends the mapping one key per
\* segment and returns the value reached; it fails with ValueError both when
\* the key of a segment is absent and when a value on the way is not a
\* mapping although segments remain.
C18_AddressErrorIsValueError ==
    (ValueResolved /\ call.args.address.v # << >>)
    => SameOutcome(call.result,
                   Descend(call.args.struct, split(call.args.address.v)))

\* C19: resolving the empty address against a mapping returns the mapping
\* itself.
C19_EmptyAddressReturnsStruct ==
    (ValueResolved /\ call.args.address.v = << >>)
    => SameOutcome(call.result, Returns(call.args.struct))

\* A finished call of validate with a callback.
Validated == call.fn = "validate" /\ call.done /\ call.args.callback.t = "callable"

\* The comparison of the i-th expected metric of the call, on its own.
ItemBounds(i) ==
    get_min_max_value_from_expected_metrics(call.args.callback.v[i].v, call.args.storage)
ItemMetric(i) == CurrentMetric(call.args.current_result, call.args.callback.v[i].k)
ItemComparable(i) == ItemMetric(i).exc = "none" /\ ItemBounds(i).exc = "none"
ItemCompared(i) ==
    compare(ItemMetric(i).val, call.args.callback.v[i].k,
            ItemBounds(i).val[1], ItemBounds(i).val[2], ItemBounds(i).val[3])
IsFailedComparison(r) == ~r.is_passed

NotComparable ==
    { i \in 1..Len(call.args.callback.v) :
        \/ ~ItemComparable(i)
        \/ ItemCompared(i).exc # "none" }

SetMin(S) == CHOOSE x \in S : \A y \in S : x <= y

\* C21 as stated: in one validate call every item of the expected mapping is
\* checked, whatever the outcome of the items before it (value out of range,
\* metric absent from the result, requirement that cannot be parsed).
C21_EveryMetricChecked ==
    Validated
    => /\ Len(call.result.trace) = Len(call.args.callback.v)
       /\ \A i \in 1..Len(call.args.callback.v) :
              call.result.trace[i].addr = call.args.callback.v[i].k

\* C21, amended: a metric out of its range never prevents the metrics after
\* it from being checked; the first item whose metric cannot be read or whose
\* requirement cannot be parsed ends the call with ValueError (an assert of
\* _compare with AssertionError), the items after it are not checked, and
\* the reasons gathered before it are not reported.
C21_OutOfRangeDoesNotStopTheLoop ==
    Validated
    => LET items == call.args.callback.v
           checked == IF NotComparable = { } THEN Len(items) ELSE SetMin(NotComparable)
       IN  /\ Len(call.result.trace) = checked
           /\ \A i \in 1..checked : call.result.trace[i].addr = items[i].k
           /\ \A i \in 1..checked :
                  i \notin NotComparable
                  => call.result.trace[i].is_passed = ItemCompared(i).is_passed
           /\ NotComparable # { }
              => /\ call.result.raised.kind \in { "ValueError", "AssertionError" }
                 /\ call.result.raised.lines = << >>

\* The first of two metrics was out of range and the second one was still
\* checked, and passed.
C21_Witness ==
    /\ Validated
    /\ Len(call.args.callback.v) = 2
    /\ Len(call.result.trace) = 2
    /\ ~call.result.trace[1].is_passed
    /\ call.result.trace[2].is_passed
    /\ call.result.raised.kind = "Failed"
    /\ Len(call.result.raised.lines) = 1

\* C22: a call of validate on a Validator without callback returns without
\* raising, whatever the current result and the storage are, compares
\* nothing, and changes neither of the two nor the test case.
C22_NoCallbackIsNoOp ==
    [][ (/\ call.fn = "validate" /\ ~call.done /\ call'.done
         /\ call.args.callback.t = "None")
        => /\ call'.result.raised.kind = "none"
           /\ call'.result.trace = << >>
           /\ call'.result.fail_reasons = << >>
           /\ call'.args = call.args
           /\ UNCHANGED test_case_vars
      ]_vars

\* validate without callback returned on an empty result, in which no metric
\* could be found.
C22_Witness ==
    /\ call.fn = "validate" /\ call.done
    /\ call.args.callback.t = "None"
    /\ call.args.current_result = PyDict(<< >>)
    /\ DOMAIN call.args.storage.v = { << "a" >> }
    /\ call.result.raised.kind = "none"

\* A finished call of validate with the callback that the fixture built for
\* a test of the reallife usecase.
ReallifeValidated ==
    /\ call.fn = "validate" /\ call.done
    /\ "usecase" \in DOMAIN call.args
    /\ call.args.usecase = REALLIFE_USECASE_CONSTANT

\* C23: in a test of the reallife usecase, validate raises ValueError, an
\* error and neither a skip nor a silent pass, when the expected metrics of
\* all tests could not be loaded and when the parameters string of the test
\* is not a key of them; no metric is compared then.
C23_MissingExpectationsIsError ==
    (/\ ReallifeValidated
     /\ \/ call.args.expected_metrics_all_tests.t = "None"
        \/ call.args.current_test_parameters_string
             \notin DOMAIN call.args.expected_metrics_all_tests.v)
    => /\ call.result.raised.kind = "ValueError"
       /\ call.result.trace = << >>
       /\ call.result.fail_reasons = << >>

\* The expected metrics hold the test "id1" only, and the validation of the
\* test "id2" ended with ValueError.
C23_Witness ==
    /\ ReallifeValidated
    /\ call.args.expected_metrics_all_tests.t = "dict"
    /\ DOMAIN call.args.expected_metrics_all_tests.v = { "id1" }
    /\ call.args.current_test_parameters_string = "id2"
    /\ call.result.raised.kind = "ValueError"
    /\ call.result.trace = << >>

\* The calls of the expected metrics callback in a run_stage call: validate
\* calls it when the Validator has one.
CallbackCalls(trace) ==
    { i \in ValidateEvents(trace) : trace[i].outcome # "noop" }

\* C24: the expected metrics callback is called in a run_stage call if and
\* only if the validation of the requested stage is made: the Validator has a
\* callback, the action of the requested stage is with validation and the
\* stage succeeded.  It is called for the requested stage only, so a call for a
\* stage without validation never ends with an exception of the validation,
\* whatever the callback would do.
C24_CallbackOnlyForValidatedRequestedStage ==
    last.stage \in Stages =>
      /\ (CallbackCalls(last.trace) # { }
            <=> /\ last.validator = "callback"
                /\ with_validation[last.stage]
                /\ Succeeded(last.stage))
      /\ \A i \in CallbackCalls(last.trace) : last.trace[i].stage = last.stage
      /\ ~with_validation[last.stage]
           => last.raised.kind \notin { "validation_failed", "validation_error" }

\* pot was requested with a Validator that has a callback; the actions of
\* training, export and pot were executed and the callback was not called.
C24_Witness ==
    /\ last.stage = "pot"
    /\ last.validator = "callback"
    /\ SucceededIn(last.trace) = { "training", "export", "pot" }
    /\ CallbackCalls(last.trace) = { }
    /\ last.raised = NoException

\* C25: the action of every stage but training, called with prior results
\* that lack a stage whose result the action reads, fails with the
\* RuntimeError of _check_result_prev_stages.
C25_AbsentReadStageIsMissingDependencyError ==
    (/\ call.fn = "action" /\ call.done
     /\ call.args.stage # "training"
     /\ ~ (stages_read[call.args.stage]
             \subseteq Keys(call.args.results_prev_stages)))
    => call.result = "missing"

\* Two test parameters for which _generate_test_id gave the same id.
SameTestId ==
    /\ call.fn = "generate_test_id" /\ call.done
    /\ call.result.a = call.result.b

IdParameters ==
    { SHORT_TEST_PARAMETERS_NAMES_FOR_GENERATING_ID[i][1] :
        i \in 1..Len(SHORT_TEST_PARAMETERS_NAMES_FOR_GENERATING_ID) }

SameRenderedValues ==
    \A par_name \in IdParameters :
        str(call.args.a[par_name]) = str(call.args.b[par_name])

C27_ProcessedStageNeverChanges ==
    [][ \A s \in Stages :
          was_processed[s]
          => /\ was_processed'[s]
             /\ stored_exception'[s] = stored_exception[s]
             /\ stage_results'[s] = stage_results[s] ]_vars

\* A later run_stage call reached a stage that had succeeded and a stage
\* that had failed in an earlier call: no action of the two was invoked and
\* the call ended with the stored exception.
C27_Witness ==
    /\ run_stage_calls >= 2
    /\ \E s, f \in Reached(last.stage) :
         /\ Succeeded(s) /\ Failed(f)
         /\ ActionEventsOf(last.trace, s) = { }
         /\ ActionEventsOf(last.trace, f) = { }
         /\ last.raised = stored_exception[f]

\* The positions of the entries of the key name in the storage.
EntriesOf(storage, name) == { i \in 1..Len(storage) : storage[i].key = name }

\* C28: a stage name is a key of test_results_storage if and only if the
\* stage is processed and has no stored exception, and the value of the
\* (one) entry is stage_results of the stage; a stage that failed or was not
\* run has no entry.
C28_StorageHoldsExactlySucceededStages ==
    \A s \in Stages :
        /\ s \in Keys(test_results_storage) <=> Succeeded(s)
        /\ Succeeded(s)
             => /\ Cardinality(EntriesOf(test_results_storage, s)) = 1
                /\ Lookup(test_results_storage, s) = stage_results[s]
                /\ stage_results[s] # NoResult
        /\ (Failed(s) \/ ~was_processed[s])
             => EntriesOf(test_results_storage, s) = { }

\* Some stages succeeded, a stage failed and a stage was not run.
C28_Witness ==
    /\ Succeeded("training") /\ Succeeded("export")
    /\ Failed("pot")
    /\ ~was_processed["nncf"]
    /\ Keys(test_results_storage) = { "training", "export" }

\* C29: every transitive dependency of a succeeded stage has succeeded, and
\* in test_results_storage the entry of a stage comes after the entries of
\* all its dependencies.
C29_StorageInDependencyOrder ==
    /\ \A s \in Stages :
         Succeeded(s) => \A d \in transitive_depends[s] : Succeeded(d)
    /\ \A i, j \in 1..Len(test_results_storage) :
         test_results_storage[j].key \in transitive_depends[test_results_storage[i].key]
         => j < i

\* The stage with the most dependencies succeeded; the entries of the
\* storage were added in several calls and not in the order of the test stages.
C29_Witness ==
    /\ Succeeded("nncf_export_evaluation")
    /\ Len(test_results_storage) = 6
    /\ run_stage_calls >= 2
    /\ test_results_storage[2].key = "training_evaluation"

\* C30: whenever run_stage invokes the action of a stage, every stage that
\* the action requires or reads is a key of the storage: no invocation ends
\* with the RuntimeError of _check_result_prev_stages (or with a KeyError of a
\* read of the prior results), and no such exception is stored or raised.
C30_NoMissingDependencyError ==
    /\ \A i \in ActionEvents(last.trace) :
         last.trace[i].outcome \notin { "missing", "keyerror" }
    /\ last.raised.kind \notin { "missing", "keyerror" }
    /\ \A s \in Stages : stored_exception[s].kind \notin { "missing", "keyerror" }

\* The action of pot, which reads the results of training and export, was
\* invoked and returned in a call that found both stages succeeded before.
C30_Witness ==
    /\ last.stage = "pot_evaluation"
    /\ "pot" \in SucceededIn(last.trace)
    /\ ActionEventsOf(last.trace, "training") = { }
    /\ ActionEventsOf(last.trace, "export") = { }
    /\ { "training", "export" } \subseteq Keys(test_results_storage)

\* The stages whose action ended with the given outcome in the trace.
EndedIn(trace, outcome) ==
    { trace[i].stage : i \in { j \in ActionEvents(trace) : trace[j].outcome = outcome } }

\* C31: no run_stage call ends with the RuntimeError of run_once for a stage
\* that was not processed and whose name is a key of the storage, also not
\* after actions that failed or were skipped: when the action of a stage is
\* about to be invoked, its name is not a key of the storage.
C31_NoDuplicateStageError ==
    /\ last.raised.kind # "duplicate"
    /\ \A s \in Stages :
         /\ stored_exception[s].kind # "duplicate"
         /\ ~was_processed[s] => s \notin Keys(test_results_storage)

\* The action of nncf was skipped again in a third call, after a call in
\* which an action failed; the storage holds the results of other stages.
C31_Witness ==
    /\ run_stage_calls = 3
    /\ "nncf" \in EndedIn(last.trace, "skipped")
    /\ \E f \in Stages : Failed(f)
    /\ Len(test_results_storage) >= 2
    /\ ~was_processed["nncf"]

\* C32: after a run_stage call that ended with the failure of the validation
\* of stage s, the stage is succeeded and its result is in the storage, and
\* the next call leaves all that as it is and does not invoke the action of s
\* again: a call for another stage does not end with an exception of s, and
\* a call for s with a Validator that has a callback validates the very same
\* result again.
C32_ValidationFailureKeepsStageSucceeded ==
    [][ \A s \in Stages :
          (last.raised.kind = "validation_failed" /\ last.raised.stage = s)
          => /\ Succeeded(s)
             /\ s \in Keys(test_results_storage)
             /\ Lookup(test_results_storage, s) = stage_results[s]
             /\ was_processed'[s] /\ stored_exception'[s] = NoException
             /\ stage_results'[s] = stage_results[s]
             /\ s \in Keys(test_results_storage')
             /\ Lookup(test_results_storage', s) = stage_results[s]
             /\ ActionEventsOf(last'.trace, s) = { }
             /\ last'.stage # s => last'.raised.stage # s
             /\ (last'.stage = s /\ last'.validator = "callback")
                  => \E i \in CallbackCalls(last'.trace) :
                       /\ last'.trace[i].stage = s
                       /\ last'.trace[i].result = stage_results[s] ]_vars

\* The validation of training_evaluation failed in a call that did not invoke
\* its action, since the stage had succeeded in an earlier direct call, and
\* pot_evaluation, a stage that depends on it, has succeeded.
C32_Witness ==
    /\ run_stage_calls = 3
    /\ last.stage = "training_evaluation"
    /\ last.raised.kind = "validation_failed"
    /\ ActionEvents(last.trace) = { }
    /\ succeeded_as["training_evaluation"] = "direct"
    /\ Succeeded("pot_evaluation")

\* The last run_stage call ended with the exception of the action of a
\* dependency stage of the requested stage.
AbortedByFailedDependency ==
    /\ last.stage \in Stages
    /\ last.raised.kind = "error"
    /\ last.raised.stage \in transitive_depends[last.stage]

\* The positions in depends_stages of the requested stage of the dependency
\* stages that reach the stage whose exception ended the last call.
FailingDepends ==
    { i \in 1..Len(depends_stages[last.stage]) :
        last.raised.stage \in Reached(depends_stages[last.stage][i]) }

\* C33: when a run_stage call ends with the exception of a failed dependency,
\* the requested stage is not run (not processed, no stored exception, no
\* result, action not invoked), and the dependency stages listed before the
\* failing one, with all that they depend on, have succeeded and their
\* results are stored.
C33_AbortLeavesRequestedStageNotRun ==
    AbortedByFailedDependency =>
      /\ ~was_processed[last.stage]
      /\ stored_exception[last.stage] = NoException
      /\ stage_results[last.stage] = NoResult
      /\ ActionEventsOf(last.trace, last.stage) = { }
      /\ Failed(last.raised.stage)
      /\ FailingDepends # { }
      /\ \A j \in 1..(SetMin(FailingDepends) - 1) :
           \A d \in Reached(depends_stages[last.stage][j]) :
               Succeeded(d) /\ d \in Keys(test_results_storage)

\* training_evaluation had failed; the call for pot_evaluation executed the
\* actions of export and pot and stored their results before it ended with
\* the exception of training_evaluation.
C33_Witness ==
    /\ last.stage = "pot_evaluation"
    /\ last.raised = stored_exception["training_evaluation"]
    /\ Failed("training_evaluation")
    /\ ActionEventsOf(last.trace, "training_evaluation") = { }
    /\ { "export", "pot" } \subseteq SucceededIn(last.trace)
    /\ { "export", "pot" } \subseteq Keys(test_results_storage)
    /\ ~was_processed["pot_evaluation"]

\* The stage that the address of the key 'base' starts with in the example of
\* the expected metrics of export_evaluation.
DocumentedBaseStages == { "training_evaluation" }

\* C34: whenever the metrics of an evaluation stage are compared with the
\* expected metrics, the result of every stage that is named by 'base' in the
\* documented example is in test_results_storage, whatever the order of the
\* run_stage calls; so it is when export_evaluation is validated.
C34_BaseStageIsStoredWhenValidated ==
    \A i \in CallbackCalls(last.trace) :
        DocumentedBaseStages \subseteq Keys(test_results_storage)

\* C35: the cache remembers the parameters of the last call only: a call of
\* _update_test_case_in_cache with the parameters A of the first call that
\* returned a test case, made right after a call with other parameters B,
\* returns a newly constructed test case with an empty storage and all stages not
\* run, and not the test case of the first call.
C35_FormerParametersGetNewTestCase ==
    [][ (/\ UpdateReturned
         /\ first_update.outcome = "returned"
         /\ last_update.params # first_update.params
         /\ last_update'.params = first_update.params)
        => /\ last_update'.test_case # first_update.test_case
           /\ last_update'.test_case = objects_created'
           /\ objects_created' = objects_created + 1
           /\ cache'[TestCaseKey] = last_update'.test_case
           /\ test_results_storage' = << >>
           /\ \A s \in Stages : /\ ~was_processed'[s]
                                 /\ stored_exception'[s] = NoException
                                 /\ stage_results'[s] = NoResult
      ]_vars

\* Three calls with the parameters A, B and A again returned the test cases
\* 1, 2 and 3.
C35_Witness ==
    /\ cache_updates = 3
    /\ objects_created = 3
    /\ first_update.outcome = "returned" /\ first_update.test_case = 1
    /\ last_update.outcome = "returned" /\ last_update.test_case = 3
    /\ last_update.params = first_update.params
    /\ cache[TestCaseKey] = 3
    /\ test_results_storage = << >>

\* C36: the triple (target, min, max) that
\* _get_min_max_value_from_expected_metrics returns for a requirement has a
\* bound that is not None, min <= target when min is not None and
\* target <= max when max is not None, so that the assertions of _compare on
\* the bounds hold for it.
C36_ReturnedBoundsEncloseTarget ==
    (MinMaxEvaluated /\ call.result.exc = "none")
    => LET target_value == call.result.val[1]
           min_value == call.result.val[2]
           max_value == call.result.val[3]
       IN  /\ min_value.t # "None" \/ max_value.t # "None"
           /\ min_value.t # "None" => FLe(min_value, target_value)
           /\ max_value.t # "None" => FLe(target_value, max_value)

\* C37: a requirement written as in the documented example, with
\* 'target_value' or 'base' and the tolerance key 'max_drop', is accepted by
\* _get_min_max_value_from_expected_metrics and gets its bounds.
C37_DocumentedRequirementAccepted ==
    (MinMaxEvaluated /\ "max_drop" \in DOMAIN call.args.cur_metric_requirements)
    => /\ call.result.exc = "none"
       /\ \E i \in { 2, 3 } : call.result.val[i].t # "None"

\* C38: every run_stage call comes to its end: the stack of the run_once
\* calls never gets deeper than the number of stages, the action of a stage
\* is invoked at most once in a call, so at most ten actions are invoked, and
\* a call under way is over at some time.
C38_RunStageTerminates ==
    /\ [](/\ Len(stack) <= Len(TEST_STAGES)
          /\ \A s \in Stages : Cardinality(ActionEventsOf(last.trace, s)) <= 1
          /\ Cardinality(ActionEvents(last.trace)) <= Len(TEST_STAGES))
    /\ (stack # << >>) ~> (stack = << >>)

\* The call for nncf_export_evaluation is over; it had invoked the actions of
\* six stages.
C38_Witness ==
    /\ stack = << >>
    /\ last.stage = "nncf_export_evaluation"
    /\ Cardinality(ActionEvents(last.trace)) = 6
    /\ Succeeded("nncf_export_evaluation")

\* C39: optimize of a task whose model has FakeQuantize nodes returns with
\* the status FAILED in the output model and with the model and the
\* inferencer of the task as they were.  In run_stage calls for pot or
\* pot_evaluation the action of pot then fails, its exception is stored and
\* raised again by the second call without another invocation of the action,
\* and the action of pot_evaluation is invoked in neither call.
C39_QuantizedModelFailsPot ==
    /\ (call.fn = "optimize" /\ call.done
        /\ call.args.optimization_type = "POT" /\ call.args.quantized)
       => /\ call.result.exc = "none"
          /\ call.result.output_model.model_status = "FAILED"
          /\ call.result.task = call.args.task
    /\ (call.fn = "run_pot_stages" /\ call.done /\ call.args.quantized
        /\ call.args.stage_name \in { "pot", "pot_evaluation" })
       => LET first == call.result.first
              second == call.result.second
          IN  /\ EndedIn(first.trace, "error") = { "pot" }
              /\ first.raised = [ kind |-> "error", stage |-> "pot", n |-> 1 ]
              /\ first.was_processed["pot"]
              /\ first.stored_exception["pot"] = first.raised
              /\ "pot" \notin Keys(first.test_results_storage)
              /\ second.raised = first.raised
              /\ ActionEvents(second.trace) = { }
              /\ second.action_calls["pot"] = 1
              /\ second.action_calls["pot_evaluation"] = 0
              /\ ~second.was_processed["pot_evaluation"]

\* Two calls for pot_evaluation with a quantized exported model were made:
\* the first invoked the actions of training, export and pot.
C39_Witness ==
    /\ call.fn = "run_pot_stages" /\ call.done /\ call.args.quantized
    /\ call.args.stage_name = "pot_evaluation"
    /\ Len(call.result.first.trace) = 3
    /\ call.result.first.trace[3] = ActionEvent("pot", "error")
    /\ call.result.second.raised.stage = "pot"

====
